---------------------------- MODULE Spec2Model ----------------------------
(***************************************************************************)
(* A model of the MEP2 receive-side PDU parser (production build, i.e.     *)
(* without FUZZING_BUILD): the line framer PduParser, the PDU bodies it    *)
(* dispatches to, the 7-bit additive checksum, the percent codec and the   *)
(* address grammar.                                                        *)
(*                                                                         *)
(* A string is a sequence of bytes (naturals 0..255).  An exception is a   *)
(* record [kind, code]: kind "Mep2Error" carries the numeric MEP2 status,  *)
(* the other kinds are the C++ standard exceptions the code lets through.  *)
(***************************************************************************)
EXTENDS Integers, Sequences, FiniteSets, TLC

\* --------------------------------------------------------------- errors

PDU_Syntax_Error == 301
Malformed_Data == 303
Envelope_Problem == 310
Envelope_No_Data == 311
Envelope_No_To == 312
Checksum_Error == 403

NoError == [kind |-> "none", code |-> 0]
Mep2Error(c) == [kind |-> "Mep2Error", code |-> c]
PduSyntaxError == Mep2Error(PDU_Syntax_Error)
PduMalformedDataError == Mep2Error(Malformed_Data)
PduEnvelopeDataError == Mep2Error(Envelope_Problem)
PduNoEnvelopeDataError == Mep2Error(Envelope_No_Data)
PduToRequiredError == Mep2Error(Envelope_No_To)
PduChecksumError == Mep2Error(Checksum_Error)
InvalidArgument == [kind |-> "std::invalid_argument", code |-> 0]
RuntimeError == [kind |-> "std::runtime_error", code |-> 0]

\* ------------------------------------------------------- string utilities

\* s without its first n bytes (string_view::remove_prefix / substr(n)).
Drop(s, n) == SubSeq(s, n + 1, Len(s))
\* the first n bytes of s (string_view::substr(0, n)).
Take(s, n) == SubSeq(s, 1, IF n < Len(s) THEN n ELSE Len(s))

lower(c) == IF c >= 65 /\ c <= 90 THEN c + 32 ELSE c

\* The value of a hex digit, -1 where the code throws std::invalid_argument.
char_to_hex(c) ==
    IF c >= 48 /\ c <= 57 THEN c - 48
    ELSE IF lower(c) >= 97 /\ lower(c) <= 102 THEN lower(c) - 97 + 10
    ELSE -1

is_printable(sv) == \A i \in 1..Len(sv) : sv[i] >= 32 /\ sv[i] <= 126

\* Case-insensitive "haystack starts with needle" (needle is lower case).
icompare(haystack, needle) ==
    /\ Len(haystack) >= Len(needle)
    /\ \A i \in 1..Len(needle) : lower(haystack[i]) = needle[i]

IsSpace(c) == c = 32 \/ c = 9

RECURSIVE lstrip(_)
lstrip(sv) == IF Len(sv) > 0 /\ IsSpace(sv[1]) THEN lstrip(Tail(sv)) ELSE sv

RECURSIVE rstrip(_)
rstrip(sv) ==
    IF Len(sv) > 0 /\ IsSpace(sv[Len(sv)]) THEN rstrip(SubSeq(sv, 1, Len(sv) - 1)) ELSE sv

strip(sv) == rstrip(lstrip(sv))

\* std::count(line.cbegin(), line.cend(), ch)
count(line, ch) == Cardinality({i \in 1..Len(line) : line[i] = ch})

\* string_view::find(ch) as a 0-based offset, -1 for npos.
find(line, ch) ==
    IF \E i \in 1..Len(line) : line[i] = ch
    THEN (CHOOSE i \in 1..Len(line) : line[i] = ch /\ \A j \in 1..(i - 1) : line[j] # ch) - 1
    ELSE -1

starts_with(line, prefix) ==
    Len(line) >= Len(prefix) /\ SubSeq(line, 1, Len(prefix)) = prefix

ends_with_char(line, ch) == Len(line) > 0 /\ line[Len(line)] = ch

\* ------------------------------------------------------------- checksum

\* add_line without the mask: a byte with its top bit set adds all eight
\* bits.
RECURSIVE add_line_unmasked(_, _)
add_line_unmasked(checksum, line) ==
    IF line = <<>> THEN checksum
    ELSE add_line_unmasked((checksum + Head(line)) % 65536, Tail(line))

\* PduChecksum::add_line: _checksum is a uint16_t, each byte adds c & 0x7F.
RECURSIVE add_line(_, _)
add_line(checksum, line) ==
    IF line = <<>> THEN checksum
    ELSE add_line((checksum + (Head(line) % 128)) % 65536, Tail(line))

\* PduChecksum(std::string_view): -1 where it throws std::invalid_argument.
RECURSIVE checksum_digits(_, _)
checksum_digits(acc, text) ==
    IF text = <<>> THEN acc
    ELSE IF char_to_hex(Head(text)) < 0 THEN -1
    ELSE checksum_digits(((acc * 16) % 65536) + char_to_hex(Head(text)), Tail(text))

PduChecksum_from_string(text) ==
    IF Len(text) # 4 THEN -1 ELSE checksum_digits(0, text)

\* -------------------------------------------------------------- PduType

\* The keywords create_pdu_trie() inserts, by type id.
Keyword ==
    [ busy    |-> <<98, 117, 115, 121>>,
      comment |-> <<99, 111, 109, 109, 101, 110, 116>>,
      create  |-> <<99, 114, 101, 97, 116, 101>>,
      end     |-> <<101, 110, 100>>,
      env     |-> <<101, 110, 118>>,
      hdr     |-> <<104, 100, 114>>,
      init    |-> <<105, 110, 105, 116>>,
      reply   |-> <<114, 101, 112, 108, 121>>,
      reset   |-> <<114, 101, 115, 101, 116>>,
      scan    |-> <<115, 99, 97, 110>>,
      send    |-> <<115, 101, 110, 100>>,
      term    |-> <<116, 101, 114, 109>>,
      text    |-> <<116, 101, 120, 116>>,
      turn    |-> <<116, 117, 114, 110>>,
      verify  |-> <<118, 101, 114, 105, 102, 121>> ]

type_id == DOMAIN Keyword

is_single_line(t) == t \in {"create", "send", "scan", "busy", "turn", "term"}

has_options(t) == t \in {"verify", "text", "scan", "turn", "reply"}

\* ----------------------------------------------------------------- trie

is_valid_command_char(c) == (c >= 97 /\ c <= 122) \/ (c >= 65 /\ c <= 90)

\* A trie node is the lower-case word that leads to it; a child exists when
\* some keyword continues the node's word with that letter.
TrieHasChild(node, ch) ==
    \E t \in type_id : starts_with(Keyword[t], Append(node, ch))

TrieIsEnd(node) == \E t \in type_id : Keyword[t] = node

TrieCmd(node) == CHOOSE t \in type_id : Keyword[t] = node

\* Trie::find that stops at the first letter no keyword continues with
\* and answers for the letters read so far.
RECURSIVE TrieWalk_prefix(_, _, _)
TrieWalk_prefix(str, consumed, node) ==
    IF consumed < Len(str) /\ is_valid_command_char(str[consumed + 1])
          /\ TrieHasChild(node, lower(str[consumed + 1]))
    THEN TrieWalk_prefix(str, consumed + 1, Append(node, lower(str[consumed + 1])))
    ELSE IF TrieIsEnd(node)
         THEN [found |-> TRUE, cmd |-> TrieCmd(node), rest |-> Drop(str, consumed)]
         ELSE [found |-> FALSE, cmd |-> "none", rest |-> str]

\* Trie::find: [found, cmd, rest]; rest is str advanced past the keyword
\* on success and str untouched otherwise.
RECURSIVE TrieWalk(_, _, _)
TrieWalk(str, consumed, node) ==
    IF consumed < Len(str) /\ is_valid_command_char(str[consumed + 1])
    THEN IF TrieHasChild(node, lower(str[consumed + 1]))
         THEN TrieWalk(str, consumed + 1, Append(node, lower(str[consumed + 1])))
         ELSE [found |-> FALSE, cmd |-> "none", rest |-> str]
    ELSE IF TrieIsEnd(node)
         THEN [found |-> TRUE, cmd |-> TrieCmd(node), rest |-> Drop(str, consumed)]
         ELSE [found |-> FALSE, cmd |-> "none", rest |-> str]

TrieFind(str) == TrieWalk(str, 0, <<>>)

\* ------------------------------------------------------- framing helpers

\* validate_pdu_line without its test of the first byte.
validate_pdu_line_any_start(line) ==
    IF Len(line) < 5 THEN PduSyntaxError
    ELSE IF count(line, 42) > 1 THEN PduSyntaxError
    ELSE IF count(line, 47) > 1 THEN PduSyntaxError
    ELSE NoError

\* validate_pdu_line: the error it throws, NoError when it returns.
validate_pdu_line(line) ==
    IF Len(line) < 5 THEN PduSyntaxError
    ELSE IF line[1] # 47 THEN PduSyntaxError
    ELSE IF count(line, 42) > 1 THEN PduSyntaxError
    ELSE IF count(line, 47) > 1 THEN PduSyntaxError
    ELSE NoError

\* strip_pdu_crlf: the line cut at its first CR and right-stripped.
strip_pdu_crlf(line) ==
    IF find(line, 13) < 0
    THEN [err |-> PduSyntaxError, val |-> <<>>]
    ELSE [err |-> NoError, val |-> rstrip(Take(line, find(line, 13)))]

WildcardChecksum == <<122, 122, 122, 122>>

\* compare_text_checksum with a byte-for-byte wildcard test: only "zzzz" in
\* lower case is the wildcard.
compare_text_checksum_exact(checksum, string_checksum) ==
    LET against(sender_checksum) ==
            IF sender_checksum < 0 THEN PduSyntaxError
            ELSE IF checksum # sender_checksum THEN PduChecksumError
            ELSE NoError
    IN  IF string_checksum = WildcardChecksum THEN NoError
        ELSE against(PduChecksum_from_string(string_checksum))

\* compare_text_checksum: the error it throws, NoError when it returns.
compare_text_checksum(checksum, string_checksum) ==
    LET against(sender_checksum) ==
            IF sender_checksum < 0 THEN PduSyntaxError
            ELSE IF checksum # sender_checksum THEN PduChecksumError
            ELSE NoError
    IN  IF icompare(string_checksum, WildcardChecksum) THEN NoError
        ELSE against(PduChecksum_from_string(string_checksum))

\* validate_checksum without its test of where the '*' stands: the four
\* bytes after the '*' are the sender's checksum wherever it is.
validate_checksum_anywhere(checksum, line) ==
    LET star == find(line, 42) IN
    IF star < 0 THEN [err |-> PduSyntaxError, checksum |-> checksum, compared |-> FALSE]
    ELSE LET sum == add_line(checksum, Take(line, star + 1)) IN
         [err |-> compare_text_checksum(sum, Take(Drop(line, star + 1), 4)),
          checksum |-> sum, compared |-> TRUE]

\* validate_checksum that stops the sum before the '*'.
validate_checksum_before_star(checksum, line) ==
    LET star == find(line, 42) IN
    IF star < 0 THEN [err |-> PduSyntaxError, checksum |-> checksum, compared |-> FALSE]
    ELSE IF star # Len(line) - 5
    THEN [err |-> PduSyntaxError, checksum |-> checksum, compared |-> FALSE]
    ELSE LET sum == add_line(checksum, Take(line, star)) IN
         [err |-> compare_text_checksum(sum, SubSeq(line, star + 2, star + 5)),
          checksum |-> sum, compared |-> TRUE]

\* PduParser::validate_checksum on the body's running checksum:
\* [err, checksum, compared]; compared says whether the running sum was
\* compared with the sender's text (it is then the value of checksum).
validate_checksum(checksum, line) ==
    LET star == find(line, 42) IN
    IF star < 0 THEN [err |-> PduSyntaxError, checksum |-> checksum, compared |-> FALSE]
    ELSE IF star # Len(line) - 5
    THEN [err |-> PduSyntaxError, checksum |-> checksum, compared |-> FALSE]
    ELSE LET sum == add_line(checksum, Take(line, star + 1)) IN
         [err |-> compare_text_checksum(sum, SubSeq(line, star + 2, star + 5)),
          checksum |-> sum, compared |-> TRUE]

\* parse_pdu_start: eat the leading '/', then parse_pdu_type (the trie).
parse_pdu_type(line_parse) == TrieFind(line_parse)

parse_pdu_start(line_parse) == parse_pdu_type(Drop(line_parse, 1))

\* -------------------------------------------------------- percent codec

\* tab_fill: spaces up to the next multiple of TAB_WIDTH (always at least one).
RECURSIVE Spaces(_)
Spaces(n) == IF n = 0 THEN <<>> ELSE <<32>> \o Spaces(n - 1)

tab_fill(out) == out \o Spaces(4 - (Len(out) % 4))

\* decode_percent on "%XY": the byte, -1 where it throws std::invalid_argument.
decode_percent(hex1, hex2) ==
    IF char_to_hex(hex1) < 0 \/ char_to_hex(hex2) < 0 THEN -1
    ELSE char_to_hex(hex1) * 16 + char_to_hex(hex2)

\* decode_step without the test for a stray '/': the byte is emitted like
\* any other.
decode_step_slash_through(sv, i, result) ==
    LET c == sv[i + 1] % 128
        j == i + 2
        go(n, val) == [err |-> NoError, i |-> n, val |-> val]
        fail == [err |-> InvalidArgument, i |-> i, val |-> <<>>]
        escape(byte) ==
            IF byte < 0 THEN fail
            ELSE IF byte % 128 = 13 THEN
                IF j + 2 >= Len(sv) /\ sv[j + 1] = 37 THEN fail
                ELSE go(j + 1, result)
            ELSE IF (byte % 128) \in {10, 11, 12} THEN go(j + 1, result)
            ELSE go(j + 1, Append(result, byte % 128))
    IN
    IF c = 37 THEN
        IF i + 2 >= Len(sv) THEN fail
        ELSE IF sv[i + 2] = 13 /\ sv[i + 3] = 10 THEN go(i + 3, result)
        ELSE escape(decode_percent(sv[i + 2], sv[i + 3]))
    ELSE IF c = 9 THEN go(i + 1, tab_fill(result))
    ELSE IF c = 13 THEN
        IF i + 1 < Len(sv) /\ sv[i + 2] = 10
        THEN go(i + 2, result \o <<13, 10>>)
        ELSE go(i + 1, result)
    ELSE IF c \in {10, 11, 12, 15, 17, 18, 19} THEN go(i + 1, result)
    ELSE IF c \in {21, 24} THEN go(i + 1, <<>>)
    ELSE IF c = 127 THEN
        go(i + 1, IF result = <<>> THEN result ELSE SubSeq(result, 1, Len(result) - 1))
    ELSE go(i + 1, Append(result, c))

\* decode_step without the transparent "%\r\n": the CR LF after the '%' goes
\* to decode_percent like any other two bytes.
decode_step_no_continuation(sv, i, result) ==
    LET c == sv[i + 1] % 128
        j == i + 2
        go(n, val) == [err |-> NoError, i |-> n, val |-> val]
        fail == [err |-> InvalidArgument, i |-> i, val |-> <<>>]
        escape(byte) ==
            IF byte < 0 THEN fail
            ELSE IF byte % 128 = 13 THEN
                IF j + 2 >= Len(sv) /\ sv[j + 1] = 37 THEN fail
                ELSE go(j + 1, result)
            ELSE IF (byte % 128) \in {10, 11, 12} THEN go(j + 1, result)
            ELSE go(j + 1, Append(result, byte % 128))
    IN
    IF c = 47 THEN fail
    ELSE IF c = 37 THEN
        IF i + 2 >= Len(sv) THEN fail
        ELSE escape(decode_percent(sv[i + 2], sv[i + 3]))
    ELSE IF c = 9 THEN go(i + 1, tab_fill(result))
    ELSE IF c = 13 THEN
        IF i + 1 < Len(sv) /\ sv[i + 2] = 10
        THEN go(i + 2, result \o <<13, 10>>)
        ELSE go(i + 1, result)
    ELSE IF c \in {10, 11, 12, 15, 17, 18, 19} THEN go(i + 1, result)
    ELSE IF c \in {21, 24} THEN go(i + 1, <<>>)
    ELSE IF c = 127 THEN
        go(i + 1, IF result = <<>> THEN result ELSE SubSeq(result, 1, Len(result) - 1))
    ELSE go(i + 1, Append(result, c))

\* One pass of decode_string's loop at 0-based offset i with the output so
\* far: [err, i, val], i the offset the next pass starts at, err =
\* InvalidArgument where the code throws.
decode_step(sv, i, result) ==
    LET c == sv[i + 1] % 128
        j == i + 2
        go(n, val) == [err |-> NoError, i |-> n, val |-> val]
        fail == [err |-> InvalidArgument, i |-> i, val |-> <<>>]
        escape(byte) ==
            IF byte < 0 THEN fail
            ELSE IF byte % 128 = 13 THEN
                \* the look-ahead for "%0A" tests the escape's own last
                \* digit, sv[j], against '%'
                IF j + 2 >= Len(sv) /\ sv[j + 1] = 37 THEN fail
                ELSE go(j + 1, result)
            ELSE IF (byte % 128) \in {10, 11, 12} THEN go(j + 1, result)
            ELSE go(j + 1, Append(result, byte % 128))
    IN
    IF c = 47 THEN fail
    ELSE IF c = 37 THEN
        IF i + 2 >= Len(sv) THEN fail
        ELSE IF sv[i + 2] = 13 /\ sv[i + 3] = 10 THEN go(i + 3, result)
        ELSE escape(decode_percent(sv[i + 2], sv[i + 3]))
    ELSE IF c = 9 THEN go(i + 1, tab_fill(result))
    ELSE IF c = 13 THEN
        IF i + 1 < Len(sv) /\ sv[i + 2] = 10
        THEN go(i + 2, result \o <<13, 10>>)
        ELSE go(i + 1, result)
    ELSE IF c \in {10, 11, 12, 15, 17, 18, 19} THEN go(i + 1, result)
    ELSE IF c \in {21, 24} THEN go(i + 1, <<>>)
    ELSE IF c = 127 THEN
        go(i + 1, IF result = <<>> THEN result ELSE SubSeq(result, 1, Len(result) - 1))
    ELSE go(i + 1, Append(result, c))

\* decode_string's loop from offset i to the end: [err, val].
RECURSIVE decode_from(_, _, _)
decode_from(sv, i, result) ==
    LET next(r) ==
            IF r.err # NoError THEN [err |-> r.err, val |-> <<>>]
            ELSE decode_from(sv, r.i, r.val)
    IN  IF i >= Len(sv) THEN [err |-> NoError, val |-> result]
        ELSE next(decode_step(sv, i, result))

decode_string(sv) == decode_from(sv, 0, <<>>)

\* The hex digit of a value 0..15, upper case (the header's char_to_hex).
hex_digit(c) == IF c < 10 THEN 48 + c ELSE 65 + (c - 10)

\* encode_string escapes these bytes, and every byte with the top bit set.
EncodeFilter == {0, 15, 17, 18, 19, 21, 24, 37, 47}

\* encode_string breaks the output with "%\r\n" after this many characters
\* without a CR.
SoftBreakEvery == 200

SoftBreak == <<37, 13, 10>>

\* What encode_string emits for one input byte.
encode_byte(c) ==
    IF c >= 128 \/ c \in EncodeFilter
    THEN <<37, hex_digit(c \div 16), hex_digit(c % 16)>>
    ELSE <<c>>

\* One pass of encode_string's loop at 0-based offset i with the output so
\* far and the count of characters emitted since the last CR: [i, val, run].
encode_step(sv, i, result, run) ==
    LET c == sv[i + 1]
        emitted(piece) ==
            IF c = 13 THEN [i |-> i + 1, val |-> result \o piece, run |-> 0]
            ELSE IF run + Len(piece) >= SoftBreakEvery
            THEN [i |-> i + 1, val |-> result \o piece \o SoftBreak, run |-> 0]
            ELSE [i |-> i + 1, val |-> result \o piece, run |-> run + Len(piece)]
    IN  emitted(encode_byte(c))

\* -------------------------------------------------------------- address

IsDigits(s) == \A i \in 1..Len(s) : s[i] >= 48 /\ s[i] <= 57

\* is_mciid: ^(\d{3}-\d{4}|\d{3}-\d{3}-\d{4}|\d{7}|\d{10})$
is_mciid(line) ==
    \/ Len(line) = 8 /\ IsDigits(SubSeq(line, 1, 3)) /\ line[4] = 45
                     /\ IsDigits(SubSeq(line, 5, 8))
    \/ Len(line) = 12 /\ IsDigits(SubSeq(line, 1, 3)) /\ line[4] = 45
                      /\ IsDigits(SubSeq(line, 5, 7)) /\ line[8] = 45
                      /\ IsDigits(SubSeq(line, 9, 12))
    \/ Len(line) = 7 /\ IsDigits(line)
    \/ Len(line) = 10 /\ IsDigits(line)

\* The second definition of is_mciid the sources hold, a loop over the
\* bytes: a length of 7, 8, 10 or 12, every byte a digit or a '-' at offset
\* 3 or 7.
is_mciid_loop(line) ==
    /\ Len(line) \in {7, 8, 10, 12}
    /\ \A i \in 1..Len(line) :
           \/ line[i] >= 48 /\ line[i] <= 57
           \/ line[i] = 45 /\ (i - 1) \in {3, 7}

MciIdTag == <<77, 67, 73, 32, 73, 68, 58>>

\* parse_mciid: [err, has, val] (an optional string_view, or a throw).
parse_mciid(line) ==
    LET explicit_mciid == starts_with(line, MciIdTag)
        l == IF explicit_mciid THEN lstrip(Drop(line, 7)) ELSE line
    IN  IF is_mciid(l) THEN [err |-> NoError, has |-> TRUE, val |-> l]
        ELSE IF explicit_mciid
        THEN [err |-> PduMalformedDataError, has |-> FALSE, val |-> <<>>]
        ELSE [err |-> NoError, has |-> FALSE, val |-> <<>>]

\* canonicalize_mciid, for a line is_mciid accepts.
canonicalize_mciid(line) ==
    IF Len(line) = 8 THEN line
    ELSE
    LET l == IF Len(line) >= 10 /\ starts_with(line, <<48, 48, 48>>)
             THEN Drop(line, IF line[4] = 45 THEN 4 ELSE 3)
             ELSE line
    IN  IF Len(l) = 8 \/ Len(l) = 12 THEN l
        ELSE IF Len(l) = 7 THEN SubSeq(l, 1, 3) \o <<45>> \o Drop(l, 3)
        ELSE SubSeq(l, 1, 3) \o <<45>> \o SubSeq(l, 4, 6) \o <<45>> \o Drop(l, 6)

\* A default-constructed RawAddress.
NewAddress ==
    [name |-> <<>>, id |-> <<>>, organization |-> <<>>, location |-> <<>>,
     unresolved_org_loc_1 |-> <<>>, unresolved_org_loc_2 |-> <<>>,
     ems |-> <<>>, mbx |-> <<>>,
     has_options |-> FALSE, board |-> FALSE, instant |-> FALSE, list |-> FALSE,
     owner |-> FALSE, onite |-> FALSE, print |-> FALSE, receipt |-> FALSE,
     no_receipt |-> FALSE]

\* What std::move leaves behind in a RawAddress: the strings and the mbx
\* vector are emptied, the bool flags are copied and stay.
MovedFromAddress(a) ==
    [a EXCEPT !.name = <<>>, !.id = <<>>, !.organization = <<>>, !.location = <<>>,
              !.unresolved_org_loc_1 = <<>>, !.unresolved_org_loc_2 = <<>>,
              !.ems = <<>>, !.mbx = <<>>]

LocTag == <<76, 111, 99, 58>>
OrgTag == <<79, 114, 103, 58>>

\* RawAddress::parse_org_or_loc: [err, addr].
parse_org_or_loc(a, line) ==
    IF is_mciid(line) THEN [err |-> PduMalformedDataError, addr |-> a]
    ELSE IF starts_with(line, LocTag) THEN
        IF strip(Drop(line, 4)) = <<>> THEN [err |-> PduMalformedDataError, addr |-> a]
        ELSE [err |-> NoError, addr |-> [a EXCEPT !.location = strip(Drop(line, 4))]]
    ELSE IF starts_with(line, OrgTag) THEN
        IF strip(Drop(line, 4)) = <<>> THEN [err |-> PduMalformedDataError, addr |-> a]
        ELSE [err |-> NoError, addr |-> [a EXCEPT !.organization = strip(Drop(line, 4))]]
    ELSE IF line = <<>> THEN [err |-> PduMalformedDataError, addr |-> a]
    ELSE IF a.unresolved_org_loc_1 = <<>>
    THEN [err |-> NoError, addr |-> [a EXCEPT !.unresolved_org_loc_1 = line]]
    ELSE [err |-> NoError, addr |-> [a EXCEPT !.unresolved_org_loc_2 = line]]

\* The option names of RawAddress::parse_options and the flag each sets.
AddressOption ==
    [ board      |-> <<66, 79, 65, 82, 68>>,
      instant    |-> <<73, 78, 83, 84, 65, 78, 84>>,
      list       |-> <<76, 73, 83, 84>>,
      owner      |-> <<79, 87, 78, 69, 82>>,
      onite      |-> <<79, 78, 73, 84, 69>>,
      print      |-> <<80, 82, 73, 78, 84>>,
      receipt    |-> <<82, 69, 67, 69, 73, 80, 84>>,
      no_receipt |-> <<78, 79, 32, 82, 69, 67, 69, 73, 80, 84>> ]

\* The while loop of parse_options over the option list: [err, addr].
RECURSIVE parse_option_list(_, _)
parse_option_list(a, options) ==
    IF options = <<>> THEN [err |-> NoError, addr |-> a]
    ELSE
    LET delim == find(options, 44) IN
    IF delim = Len(options) - 1 THEN [err |-> PduMalformedDataError, addr |-> a]
    ELSE
    LET option == IF delim >= 0 THEN Take(options, delim) ELSE options
        rest == IF delim >= 0 THEN Drop(options, delim + 1) ELSE <<>>
    IN  IF option = <<>> THEN [err |-> PduMalformedDataError, addr |-> a]
        ELSE IF \E f \in DOMAIN AddressOption : AddressOption[f] = strip(option)
        THEN LET f == CHOOSE f \in DOMAIN AddressOption : AddressOption[f] = strip(option)
             IN  parse_option_list([a EXCEPT ![f] = TRUE, !.has_options = TRUE], rest)
        ELSE [err |-> PduMalformedDataError, addr |-> a]

\* RawAddress::parse_options: [err, addr, line]; line loses its "(...)".
parse_address_options(a, line) ==
    IF ~ends_with_char(line, 41) THEN [err |-> NoError, addr |-> a, line |-> line]
    ELSE IF count(line, 40) # 1 THEN [err |-> PduMalformedDataError, addr |-> a, line |-> line]
    ELSE IF count(line, 41) # 1 THEN [err |-> PduMalformedDataError, addr |-> a, line |-> line]
    ELSE
    LET options_start == find(line, 40)
        options == strip(SubSeq(line, options_start + 2, Len(line) - 1))
        r == parse_option_list(a, options)
    IN  [err |-> r.err, addr |-> r.addr, line |-> rstrip(Take(line, options_start))]

\* RawAddress::parse_first_line after its zero-slash case: the name or id
\* before the first '/', then the org/loc parts.  [err, addr].
address_parse_slashed(a0, line0, num_slashes) ==
    LET first_slash == find(line0, 47)
        first_part == IF first_slash < 0 THEN line0 ELSE Take(line0, first_slash)
        two_parts(a1, line) ==
            LET second_slash == find(line, 47)
                second_part == strip(IF second_slash < 0 THEN line
                                     ELSE Take(line, second_slash))
                third_part == strip(Drop(line, second_slash + 1))
                second(r2) ==
                    IF r2.err # NoError THEN r2 ELSE parse_org_or_loc(r2.addr, third_part)
            IN  IF is_mciid(second_part) \/ is_mciid(third_part)
                THEN [err |-> PduMalformedDataError, addr |-> a1]
                ELSE second(parse_org_or_loc(a1, second_part))
        one_part(a1, line, m2) ==
            IF a1.id = <<>> /\ m2.err # NoError THEN [err |-> m2.err, addr |-> a1]
            ELSE IF a1.id = <<>> /\ m2.has
            THEN [err |-> NoError, addr |-> [a1 EXCEPT !.id = canonicalize_mciid(m2.val)]]
            ELSE parse_org_or_loc(a1, line)
        named(a1, rest) ==
            IF rest = <<>> THEN [err |-> PduMalformedDataError, addr |-> a1]
            ELSE IF num_slashes = 1 THEN one_part(a1, strip(rest), parse_mciid(strip(rest)))
            ELSE two_parts(a1, strip(rest))
        first(m) ==
            IF m.err # NoError THEN [err |-> m.err, addr |-> a0]
            ELSE named(IF m.has THEN [a0 EXCEPT !.id = canonicalize_mciid(m.val)]
                       ELSE [a0 EXCEPT !.name = rstrip(first_part)],
                       Drop(line0, first_slash + 1))
    IN  IF first_part = <<>> THEN [err |-> PduMalformedDataError, addr |-> a0]
        ELSE first(parse_mciid(rstrip(first_part)))

\* RawAddress::parse_first_line: [err, addr]; addr keeps what was assigned
\* before a throw.
address_parse_first_line(a, line_in) ==
    LET num_slashes == count(line_in, 47)
        plain(o, m) ==
            IF m.err # NoError THEN [err |-> m.err, addr |-> o.addr]
            ELSE IF m.has
            THEN [err |-> NoError, addr |-> [o.addr EXCEPT !.id = canonicalize_mciid(m.val)]]
            ELSE IF o.line = <<>> THEN [err |-> PduMalformedDataError, addr |-> o.addr]
            ELSE [err |-> NoError, addr |-> [o.addr EXCEPT !.name = o.line]]
        with_options(o) ==
            IF o.err # NoError THEN [err |-> o.err, addr |-> o.addr]
            ELSE IF num_slashes = 0 THEN plain(o, parse_mciid(o.line))
            ELSE address_parse_slashed(o.addr, o.line, num_slashes)
    IN  IF num_slashes > 2 THEN [err |-> PduMalformedDataError, addr |-> a]
        ELSE IF rstrip(line_in) = <<>> THEN [err |-> PduMalformedDataError, addr |-> a]
        ELSE with_options(parse_address_options(a, rstrip(line_in)))

RECURSIVE SumLen(_)
SumLen(ss) == IF ss = <<>> THEN 0 ELSE Len(Head(ss)) + SumLen(Tail(ss))

MaxMbxLen == 305

\* address_parse_field with the aggregate MBX length bounded one lower: a
\* total of exactly MaxMbxLen is refused.
address_parse_field_below(a, field, information) ==
    IF Len(field) < 4 THEN [err |-> PduMalformedDataError, addr |-> a]
    ELSE IF icompare(field, <<101, 109, 115, 58>>) THEN
        IF a.ems # <<>> THEN [err |-> PduMalformedDataError, addr |-> a]
        ELSE IF information = <<>> THEN [err |-> PduMalformedDataError, addr |-> a]
        ELSE [err |-> NoError, addr |-> [a EXCEPT !.ems = information]]
    ELSE IF icompare(field, <<109, 98, 120, 58>>) THEN
        IF a.ems = <<>> THEN [err |-> PduMalformedDataError, addr |-> a]
        ELSE IF information = <<>> THEN [err |-> PduMalformedDataError, addr |-> a]
        ELSE LET pushed == [a EXCEPT !.mbx = Append(@, information)] IN
             IF SumLen(pushed.mbx) >= MaxMbxLen
             THEN [err |-> PduMalformedDataError, addr |-> pushed]
             ELSE [err |-> NoError, addr |-> pushed]
    ELSE [err |-> PduMalformedDataError, addr |-> a]

\* RawAddress::parse_field: [err, addr].  An MBX is pushed before its
\* aggregate length is checked.
address_parse_field(a, field, information) ==
    IF Len(field) < 4 THEN [err |-> PduMalformedDataError, addr |-> a]
    ELSE IF icompare(field, <<101, 109, 115, 58>>) THEN
        IF a.ems # <<>> THEN [err |-> PduMalformedDataError, addr |-> a]
        ELSE IF information = <<>> THEN [err |-> PduMalformedDataError, addr |-> a]
        ELSE [err |-> NoError, addr |-> [a EXCEPT !.ems = information]]
    ELSE IF icompare(field, <<109, 98, 120, 58>>) THEN
        IF a.ems = <<>> THEN [err |-> PduMalformedDataError, addr |-> a]
        ELSE IF information = <<>> THEN [err |-> PduMalformedDataError, addr |-> a]
        ELSE LET pushed == [a EXCEPT !.mbx = Append(@, information)] IN
             IF SumLen(pushed.mbx) > MaxMbxLen
             THEN [err |-> PduMalformedDataError, addr |-> pushed]
             ELSE [err |-> NoError, addr |-> pushed]
    ELSE [err |-> PduMalformedDataError, addr |-> a]

\* ----------------------------------------------------------------- date

\* mep2_to_iana in initializer order: the zone code and its offset from
\* GMT in hours (Etc/GMT+8 is eight hours behind GMT).  A code listed
\* twice keeps its first entry, as the map's constructor does.
mep2_to_iana ==
    << <<(<<65, 72, 83>>), -10>>, <<(<<65, 72, 68>>), -9>>,
       <<(<<89, 83, 84>>), -9>>,  <<(<<89, 68, 84>>), -8>>,
       <<(<<80, 83, 84>>), -8>>,  <<(<<80, 68, 84>>), -7>>,
       <<(<<77, 83, 84>>), -7>>,  <<(<<77, 68, 84>>), -6>>,
       <<(<<67, 83, 84>>), -6>>,  <<(<<67, 68, 84>>), -5>>,
       <<(<<69, 83, 84>>), -5>>,  <<(<<69, 68, 84>>), -4>>,
       <<(<<65, 83, 84>>), -4>>,  <<(<<71, 77, 84>>), 0>>,
       <<(<<66, 83, 84>>), 1>>,   <<(<<87, 69, 83>>), 1>>,
       <<(<<87, 69, 68>>), 2>>,   <<(<<69, 77, 84>>), 2>>,
       <<(<<77, 84, 83>>), 3>>,   <<(<<77, 84, 68>>), 4>>,
       <<(<<74, 83, 84>>), 9>>,   <<(<<69, 65, 68>>), 10>>,
       <<(<<65, 75, 84>>), -9>>,  <<(<<72, 83, 84>>), -10>>,
       <<(<<77, 83, 84>>), 3>>,   <<(<<83, 78, 71>>), 8>> >>

ZoneKnown(zone) == \E i \in 1..Len(mep2_to_iana) : mep2_to_iana[i][1] = zone

\* ZoneOffset of a table in which the last entry of a key replaces the
\* earlier ones.
ZoneOffset_last(zone) ==
    LET last == CHOOSE i \in 1..Len(mep2_to_iana) :
                    /\ mep2_to_iana[i][1] = zone
                    /\ \A j \in (i + 1)..Len(mep2_to_iana) : mep2_to_iana[j][1] # zone
    IN  mep2_to_iana[last][2]

\* The offset the table holds for a code: the initializer list is inserted
\* in order and an insert of a key already present does nothing.
ZoneOffset(zone) ==
    LET first == CHOOSE i \in 1..Len(mep2_to_iana) :
                     /\ mep2_to_iana[i][1] = zone
                     /\ \A j \in 1..(i - 1) : mep2_to_iana[j][1] # zone
    IN  mep2_to_iana[first][2]

IsLetters(s) == \A i \in 1..Len(s) : is_valid_command_char(s[i])

\* The names %a and %B match in a 3-letter field, compared without case.
DayNames ==
    << <<115, 117, 110>>, <<109, 111, 110>>, <<116, 117, 101>>, <<119, 101, 100>>,
       <<116, 104, 117>>, <<102, 114, 105>>, <<115, 97, 116>> >>
MonthNames ==
    << <<106, 97, 110>>, <<102, 101, 98>>, <<109, 97, 114>>, <<97, 112, 114>>,
       <<109, 97, 121>>, <<106, 117, 110>>, <<106, 117, 108>>, <<97, 117, 103>>,
       <<115, 101, 112>>, <<111, 99, 116>>, <<110, 111, 118>>, <<100, 101, 99>> >>
NameIndex(names, s) ==
    LET low == [i \in 1..Len(s) |-> lower(s[i])] IN
    IF \E i \in 1..Len(names) : names[i] = low
    THEN CHOOSE i \in 1..Len(names) : names[i] = low
    ELSE 0
\* The value of a field of two or four decimal digits.
Digits2(s) == (s[1] - 48) * 10 + (s[2] - 48)
Digits4(s) == Digits2(SubSeq(s, 1, 2)) * 100 + Digits2(SubSeq(s, 3, 4))

IsLeap(y) == (y % 4 = 0 /\ y % 100 # 0) \/ y % 400 = 0
LastDay(y, m) ==
    IF m = 2 THEN (IF IsLeap(y) THEN 29 ELSE 28)
    ELSE IF m \in {4, 6, 9, 11} THEN 30 ELSE 31

\* std::chrono::sys_days of a year_month_day: days since 1970-01-01.
days_from_civil(y, m, d) ==
    LET yy == IF m <= 2 THEN y - 1 ELSE y
        era == yy \div 400
        yoe == yy - era * 400
        doy == (153 * (IF m > 2 THEN m - 3 ELSE m + 9) + 2) \div 5 + d - 1
        doe == yoe * 365 + yoe \div 4 - yoe \div 100 + doy
    IN  era * 146097 + doe - 719468

\* std::chrono::year_month_day of a sys_days: <<year, month, day>>.
civil_from_days(n) ==
    LET z == n + 719468
        era == z \div 146097
        doe == z - era * 146097
        yoe == (doe - doe \div 1460 + doe \div 36524 - doe \div 146096) \div 365
        doy == doe - (365 * yoe + yoe \div 4 - yoe \div 100)
        mp == (5 * doy + 2) \div 153
        d == doy - (153 * mp + 2) \div 5 + 1
        m == IF mp < 10 THEN mp + 3 ELSE mp - 9
    IN  <<(yoe + era * 400) + (IF m <= 2 THEN 1 ELSE 0), m, d>>

\* std::chrono::parse("%a %B %2d, %4Y %2I:%2M %p") on the first 25 bytes,
\* modelled on the fixed-width shape "Www Mmm dd, yyyy hh:mm ?M " that a
\* 29-byte timestamp has: [ok, minutes], the local time in minutes since
\* 1970-01-01 00:00.
chrono_parse(line) ==
    LET shaped ==
            /\ IsLetters(SubSeq(line, 1, 3)) /\ line[4] = 32
            /\ IsLetters(SubSeq(line, 5, 7)) /\ line[8] = 32
            /\ IsDigits(SubSeq(line, 9, 10)) /\ line[11] = 44 /\ line[12] = 32
            /\ IsDigits(SubSeq(line, 13, 16)) /\ line[17] = 32
            /\ IsDigits(SubSeq(line, 18, 19)) /\ line[20] = 58
            /\ IsDigits(SubSeq(line, 21, 22)) /\ line[23] = 32
            /\ lower(line[24]) \in {97, 112} /\ lower(line[25]) = 109
        fields(y, m, d, h, mi, pm) ==
            IF /\ NameIndex(DayNames, SubSeq(line, 1, 3)) # 0
               /\ m # 0
               /\ d >= 1 /\ d <= LastDay(y, m)
               /\ h >= 1 /\ h <= 12
               /\ mi <= 59
            THEN [ok |-> TRUE,
                  minutes |-> days_from_civil(y, m, d) * 1440
                              + ((h % 12) + (IF pm THEN 12 ELSE 0)) * 60 + mi]
            ELSE [ok |-> FALSE, minutes |-> 0]
    IN  IF ~shaped THEN [ok |-> FALSE, minutes |-> 0]
        ELSE fields(Digits4(SubSeq(line, 13, 16)),
                    NameIndex(MonthNames, SubSeq(line, 5, 7)),
                    Digits2(SubSeq(line, 9, 10)),
                    Digits2(SubSeq(line, 18, 19)),
                    Digits2(SubSeq(line, 21, 22)),
                    lower(line[24]) = 112)

chrono_parse_ok(line) == chrono_parse(line).ok

\* A time in minutes since 1970-01-01 00:00 as calendar fields.
CivilTime(minutes) ==
    LET days == IF minutes >= 0 THEN minutes \div 1440
                ELSE -((-minutes + 1439) \div 1440)
        ymd == civil_from_days(days)
        rest == minutes - days * 1440
    IN  [year |-> ymd[1], month |-> ymd[2], day |-> ymd[3],
         hour |-> rest \div 60, minute |-> rest % 60]

\* _gmt_time: the local time of a zone that is `offset` hours east of
\* Greenwich, projected to GMT.
gmt_time(minutes, offset) == CivilTime(minutes - offset * 60)

\* Date::parse: [err, date]; the date keeps the zone code, the local time
\* text, the zone's offset and the GMT time.
Date_parse(line) ==
    IF Len(line) # 29 THEN [err |-> InvalidArgument, date |-> <<>>]
    ELSE IF ~chrono_parse_ok(line) THEN [err |-> InvalidArgument, date |-> <<>>]
    ELSE IF ~ZoneKnown(Drop(line, 26)) THEN [err |-> InvalidArgument, date |-> <<>>]
    ELSE [err |-> NoError,
          date |-> [orig_zone |-> Drop(line, 26), local |-> Take(line, 25),
                    offset |-> ZoneOffset(Drop(line, 26)),
                    gmt |-> gmt_time(chrono_parse(line).minutes,
                                     ZoneOffset(Drop(line, 26)))]]

\* ------------------------------------------------------------ PDU bodies

\* A freshly constructed body of the given type.  One record shape serves
\* every alternative of PduVariant; a field an alternative does not have
\* stays at its default.
NewPdu(t) ==
    [type |-> t, checksum |-> 0,
     \* QueryPdu
     q_folder |-> "inbox", q_subject |-> <<>>, q_from |-> <<>>, q_priority |-> FALSE,
     \* EnvelopeHeaderPdu
     envelope_data |-> FALSE, address_parse_state |-> "idle", priority |-> "none",
     current_address |-> NewAddress, from_address |-> <<>>,
     to_address |-> <<>>, cc_address |-> <<>>,
     date |-> <<>>, source_date |-> <<>>, subject |-> <<>>, message_id |-> <<>>,
     source_message_id |-> <<>>, u_fields |-> <<>>,
     \* TextPdu
     content_type |-> "ascii", content_type_handling |-> "ascii", description |-> <<>>]

\* Pdu::parse_options, the default for bodies without options.
Pdu_parse_options(pdu, options) ==
    IF options # <<>> THEN [err |-> PduSyntaxError, pdu |-> pdu]
    ELSE [err |-> NoError, pdu |-> pdu]

QueryFolder ==
    [ outbox |-> <<79, 85, 84, 66, 79, 88>>, inbox |-> <<73, 78, 66, 79, 88>>,
      desk |-> <<68, 69, 83, 75>>, trash |-> <<84, 82, 65, 83, 72>> ]

\* The keywords QueryPdu::parse_options accepts and ignores.
QueryUnimplemented ==
    { <<77, 65, 88, 83, 73, 90, 69>>, <<77, 73, 78, 83, 73, 90, 69>>,
      <<66, 69, 70, 79, 82, 69>>, <<65, 70, 84, 69, 82>> }

\* QueryPdu::parse_options for one option with a parenthesised value.
Query_parse_value(pdu, keyword, value) ==
    LET text(d) ==
            IF d.err # NoError THEN [err |-> PduMalformedDataError, pdu |-> pdu]
            ELSE [err |-> IF is_printable(d.val) THEN NoError ELSE PduMalformedDataError,
                  pdu |-> IF keyword = <<70, 82, 79, 77>>
                          THEN [pdu EXCEPT !.q_from = d.val]
                          ELSE [pdu EXCEPT !.q_subject = d.val]]
    IN
    IF keyword = <<70, 79, 76, 68, 69, 82>> THEN
        IF \E f \in DOMAIN QueryFolder : QueryFolder[f] = value
        THEN [err |-> NoError,
              pdu |-> [pdu EXCEPT !.q_folder =
                          CHOOSE f \in DOMAIN QueryFolder : QueryFolder[f] = value]]
        ELSE [err |-> PduMalformedDataError, pdu |-> pdu]
    ELSE IF keyword \in {<<83, 85, 66, 74, 69, 67, 84>>, <<70, 82, 79, 77>>}
    THEN text(decode_string(value))
    ELSE IF keyword \in QueryUnimplemented THEN [err |-> NoError, pdu |-> pdu]
    ELSE [err |-> PduSyntaxError, pdu |-> pdu]

\* QueryPdu::parse_options: [err, pdu].
RECURSIVE Query_parse_options(_, _)
Query_parse_options(pdu, options) ==
    IF options = <<>> THEN [err |-> NoError, pdu |-> pdu]
    ELSE
    LET delim == find(options, 44)
        option == IF delim < 0 THEN options ELSE Take(options, delim)
        rest == IF delim < 0 THEN <<>> ELSE Drop(options, delim + 1)
        equals == find(option, 61)
        keyword == IF equals < 0 THEN option ELSE Take(option, equals)
        value == IF equals < 0 THEN <<>> ELSE Drop(option, equals + 1)
    IN
    IF equals >= 0 /\ Len(value) <= 3 THEN [err |-> PduSyntaxError, pdu |-> pdu]
    ELSE IF value = <<>> THEN
        IF keyword = <<80, 82, 73, 79, 82, 73, 84, 89>>
        THEN Query_parse_options([pdu EXCEPT !.q_priority = TRUE], rest)
        ELSE [err |-> PduSyntaxError, pdu |-> pdu]
    ELSE IF ~(value[1] = 40 /\ value[Len(value)] = 41)
    THEN [err |-> PduSyntaxError, pdu |-> pdu]
    ELSE
    LET inner == SubSeq(value, 2, Len(value) - 1) IN
    IF count(inner, 40) > 0 \/ count(inner, 41) > 0
    THEN [err |-> PduSyntaxError, pdu |-> pdu]
    ELSE LET r == Query_parse_value(pdu, keyword, inner) IN
         IF r.err # NoError THEN r ELSE Query_parse_options(r.pdu, rest)

\* CommentPdu::_parse_line: only std::invalid_argument is translated.
Comment_parse_line(pdu, line) ==
    LET d == decode_string(line) IN
    IF d.err # NoError THEN [err |-> PduMalformedDataError, pdu |-> pdu]
    ELSE [err |-> strip_pdu_crlf(d.val).err, pdu |-> pdu]

\* EnvelopeHeaderPdu::parse_options: [err, pdu].
Envelope_parse_options(pdu, options) ==
    IF options = <<>> THEN [err |-> NoError, pdu |-> pdu]
    ELSE IF options = <<80, 79, 83, 84, 65, 76>>
    THEN [err |-> NoError, pdu |-> [pdu EXCEPT !.priority = "postal"]]
    ELSE IF options = <<79, 78, 73, 84, 69>>
    THEN [err |-> NoError, pdu |-> [pdu EXCEPT !.priority = "onite"]]
    ELSE [err |-> PduMalformedDataError, pdu |-> pdu]

\* The field tags of split_envelope_line, in the order it tries them.
HeaderTags ==
    << <<"from", <<102, 114, 111, 109, 58>> >>,
       <<"to", <<116, 111, 58>> >>,
       <<"cc", <<99, 99, 58>> >>,
       <<"date", <<100, 97, 116, 101, 58>> >>,
       <<"source_date", <<115, 111, 117, 114, 99, 101, 45, 100, 97, 116, 101, 58>> >>,
       <<"message_id", <<109, 101, 115, 115, 97, 103, 101, 45, 105, 100, 58>> >>,
       <<"source_message_id",
         <<115, 111, 117, 114, 99, 101, 45, 109, 101, 115, 115, 97, 103, 101, 45, 105, 100, 58>> >>,
       <<"subject", <<115, 117, 98, 106, 101, 99, 116, 58>> >>,
       <<"handling", <<104, 97, 110, 100, 108, 105, 110, 103, 58>> >>,
       <<"U", <<117, 45>> >> >>

\* split_envelope_line: [err, f, field, information].
split_envelope_line(line_in) ==
    LET bad(e) == [err |-> e, f |-> "none", field |-> <<>>, information |-> <<>>]
        split(line) ==
            LET colon == find(line, 58)
                field == rstrip(Take(line, colon + 1))
                information == strip(Drop(line, colon + 1))
            IN
            IF \E i \in 1..Len(HeaderTags) : icompare(line, HeaderTags[i][2])
            THEN LET i == CHOOSE i \in 1..Len(HeaderTags) :
                              /\ icompare(line, HeaderTags[i][2])
                              /\ \A j \in 1..(i - 1) : ~icompare(line, HeaderTags[j][2])
                 IN  [err |-> NoError, f |-> HeaderTags[i][1], field |-> field,
                      information |-> information]
            ELSE IF line[1] = 32 \/ line[1] = 9
            THEN [err |-> NoError, f |-> "address_cont", field |-> lstrip(field),
                  information |-> information]
            ELSE bad(PduMalformedDataError)
        stripped(s) ==
            IF s.err # NoError THEN bad(s.err)
            ELSE IF s.val = <<>> THEN bad(PduMalformedDataError)
            ELSE IF count(s.val, 58) < 1 THEN bad(PduMalformedDataError)
            ELSE split(s.val)
    IN  stripped(strip_pdu_crlf(line_in))

\* finish_current_address that files every pending address in the
\* to-list.
finish_current_address_to_only(pdu) ==
    IF pdu.address_parse_state = "idle" THEN pdu
    ELSE IF pdu.address_parse_state \in {"parsing_to", "parsing_cc"}
    THEN [pdu EXCEPT !.to_address = Append(@, pdu.current_address),
                     !.current_address = MovedFromAddress(@),
                     !.address_parse_state = "idle"]
    ELSE [pdu EXCEPT !.from_address = <<pdu.current_address>>,
                     !.current_address = MovedFromAddress(@),
                     !.address_parse_state = "idle"]

\* finish_current_address that files the pending address and leaves the
\* address state as it was.
finish_current_address_still_pending(pdu) ==
    IF pdu.address_parse_state = "idle" THEN pdu
    ELSE IF pdu.address_parse_state = "parsing_to"
    THEN [pdu EXCEPT !.to_address = Append(@, pdu.current_address),
                     !.current_address = MovedFromAddress(@)]
    ELSE IF pdu.address_parse_state = "parsing_cc"
    THEN [pdu EXCEPT !.cc_address = Append(@, pdu.current_address),
                     !.current_address = MovedFromAddress(@)]
    ELSE [pdu EXCEPT !.from_address = <<pdu.current_address>>,
                     !.current_address = MovedFromAddress(@)]

\* EnvelopeHeaderPdu::finish_current_address: the pending address is moved
\* into its list or the from slot.
finish_current_address(pdu) ==
    IF pdu.address_parse_state = "idle" THEN pdu
    ELSE IF pdu.address_parse_state = "parsing_to"
    THEN [pdu EXCEPT !.to_address = Append(@, pdu.current_address),
                     !.current_address = MovedFromAddress(@),
                     !.address_parse_state = "idle"]
    ELSE IF pdu.address_parse_state = "parsing_cc"
    THEN [pdu EXCEPT !.cc_address = Append(@, pdu.current_address),
                     !.current_address = MovedFromAddress(@),
                     !.address_parse_state = "idle"]
    ELSE [pdu EXCEPT !.from_address = <<pdu.current_address>>,
                     !.current_address = MovedFromAddress(@),
                     !.address_parse_state = "idle"]

MaxSubject == 255
MaxMessageId == 100
MaxSourceMessageId == 78
MaxUName == 20
MaxUValue == 78
MaxQueue == 5

\* Envelope_dispatch whose two queues never evict: a sixth entry is
\* appended behind the five.
Envelope_dispatch_unbounded(pdu, f, field, decoded) ==
    IF f = "address_cont" THEN
        IF pdu.address_parse_state = "idle" THEN [err |-> PduMalformedDataError, pdu |-> pdu]
        ELSE IF ~is_printable(decoded) THEN [err |-> PduMalformedDataError, pdu |-> pdu]
        ELSE LET r == address_parse_field(pdu.current_address, field, decoded) IN
             [err |-> r.err, pdu |-> [pdu EXCEPT !.current_address = r.addr]]
    ELSE IF f \in {"to", "cc", "from"} THEN
        IF f = "from" /\ pdu.from_address # <<>>
        THEN [err |-> PduEnvelopeDataError, pdu |-> pdu]
        ELSE
        LET p1 == [pdu EXCEPT !.address_parse_state =
                       IF f = "to" THEN "parsing_to"
                       ELSE IF f = "cc" THEN "parsing_cc" ELSE "parsing_from"]
        IN  IF ~is_printable(decoded) THEN [err |-> PduMalformedDataError, pdu |-> p1]
            ELSE LET r == address_parse_first_line(p1.current_address, decoded) IN
                 [err |-> r.err, pdu |-> [p1 EXCEPT !.current_address = r.addr]]
    ELSE IF f \in {"date", "source_date"} THEN
        LET d == Date_parse(decoded) IN
        IF d.err # NoError THEN [err |-> d.err, pdu |-> pdu]
        ELSE IF f = "date" THEN [err |-> NoError, pdu |-> [pdu EXCEPT !.date = <<d.date>>]]
        ELSE [err |-> NoError, pdu |-> [pdu EXCEPT !.source_date = <<d.date>>]]
    ELSE IF f = "subject"
    THEN [err |-> NoError, pdu |-> [pdu EXCEPT !.subject = <<Take(decoded, MaxSubject)>>]]
    ELSE IF f = "message_id"
    THEN [err |-> NoError, pdu |-> [pdu EXCEPT !.message_id = <<Take(decoded, MaxMessageId)>>]]
    ELSE IF f = "source_message_id"
    THEN [err |-> NoError,
          pdu |-> [pdu EXCEPT !.source_message_id =
                      Append(@, Take(decoded, MaxSourceMessageId))]]
    ELSE IF f = "U"
    THEN [err |-> NoError,
          pdu |-> [pdu EXCEPT !.u_fields =
                      Append(@, <<Take(SubSeq(field, 1, Len(field) - 1), MaxUName),
                                  Take(decoded, MaxUValue)>>)]]
    ELSE [err |-> NoError, pdu |-> pdu]

\* Envelope_dispatch that takes a second From: like the first: the new
\* address becomes the pending one and nothing is thrown.
Envelope_dispatch_refrom(pdu, f, field, decoded) ==
    IF f = "address_cont" THEN
        IF pdu.address_parse_state = "idle" THEN [err |-> PduMalformedDataError, pdu |-> pdu]
        ELSE IF ~is_printable(decoded) THEN [err |-> PduMalformedDataError, pdu |-> pdu]
        ELSE LET r == address_parse_field(pdu.current_address, field, decoded) IN
             [err |-> r.err, pdu |-> [pdu EXCEPT !.current_address = r.addr]]
    ELSE IF f \in {"to", "cc", "from"} THEN
        LET p1 == [pdu EXCEPT !.address_parse_state =
                       IF f = "to" THEN "parsing_to"
                       ELSE IF f = "cc" THEN "parsing_cc" ELSE "parsing_from"]
        IN  IF ~is_printable(decoded) THEN [err |-> PduMalformedDataError, pdu |-> p1]
            ELSE LET r == address_parse_first_line(p1.current_address, decoded) IN
                 [err |-> r.err, pdu |-> [p1 EXCEPT !.current_address = r.addr]]
    ELSE IF f \in {"date", "source_date"} THEN
        LET d == Date_parse(decoded) IN
        IF d.err # NoError THEN [err |-> d.err, pdu |-> pdu]
        ELSE IF f = "date" THEN [err |-> NoError, pdu |-> [pdu EXCEPT !.date = <<d.date>>]]
        ELSE [err |-> NoError, pdu |-> [pdu EXCEPT !.source_date = <<d.date>>]]
    ELSE IF f = "subject"
    THEN [err |-> NoError, pdu |-> [pdu EXCEPT !.subject = <<Take(decoded, MaxSubject)>>]]
    ELSE IF f = "message_id"
    THEN [err |-> NoError, pdu |-> [pdu EXCEPT !.message_id = <<Take(decoded, MaxMessageId)>>]]
    ELSE IF f = "source_message_id"
    THEN [err |-> NoError,
          pdu |-> [pdu EXCEPT !.source_message_id =
                      Append(IF Len(@) = MaxQueue THEN Tail(@) ELSE @,
                             Take(decoded, MaxSourceMessageId))]]
    ELSE IF f = "U"
    THEN [err |-> NoError,
          pdu |-> [pdu EXCEPT !.u_fields =
                      Append(IF Len(@) = MaxQueue THEN Tail(@) ELSE @,
                             <<Take(SubSeq(field, 1, Len(field) - 1), MaxUName),
                               Take(decoded, MaxUValue)>>)]]
    ELSE [err |-> NoError, pdu |-> pdu]

\* The switch of parse_envelope_line on the field type, after the pending
\* address was flushed: [err, pdu], envelope_data not yet set.
Envelope_dispatch(pdu, f, field, decoded) ==
    IF f = "address_cont" THEN
        IF pdu.address_parse_state = "idle" THEN [err |-> PduMalformedDataError, pdu |-> pdu]
        ELSE IF ~is_printable(decoded) THEN [err |-> PduMalformedDataError, pdu |-> pdu]
        ELSE LET r == address_parse_field(pdu.current_address, field, decoded) IN
             [err |-> r.err, pdu |-> [pdu EXCEPT !.current_address = r.addr]]
    ELSE IF f \in {"to", "cc", "from"} THEN
        IF f = "from" /\ pdu.from_address # <<>>
        THEN [err |-> PduEnvelopeDataError, pdu |-> pdu]
        ELSE
        LET p1 == [pdu EXCEPT !.address_parse_state =
                       IF f = "to" THEN "parsing_to"
                       ELSE IF f = "cc" THEN "parsing_cc" ELSE "parsing_from"]
        IN  IF ~is_printable(decoded) THEN [err |-> PduMalformedDataError, pdu |-> p1]
            ELSE LET r == address_parse_first_line(p1.current_address, decoded) IN
                 [err |-> r.err, pdu |-> [p1 EXCEPT !.current_address = r.addr]]
    ELSE IF f \in {"date", "source_date"} THEN
        LET d == Date_parse(decoded) IN
        IF d.err # NoError THEN [err |-> d.err, pdu |-> pdu]
        ELSE IF f = "date" THEN [err |-> NoError, pdu |-> [pdu EXCEPT !.date = <<d.date>>]]
        ELSE [err |-> NoError, pdu |-> [pdu EXCEPT !.source_date = <<d.date>>]]
    ELSE IF f = "subject"
    THEN [err |-> NoError, pdu |-> [pdu EXCEPT !.subject = <<Take(decoded, MaxSubject)>>]]
    ELSE IF f = "message_id"
    THEN [err |-> NoError, pdu |-> [pdu EXCEPT !.message_id = <<Take(decoded, MaxMessageId)>>]]
    ELSE IF f = "source_message_id"
    THEN [err |-> NoError,
          pdu |-> [pdu EXCEPT !.source_message_id =
                      Append(IF Len(@) = MaxQueue THEN Tail(@) ELSE @,
                             Take(decoded, MaxSourceMessageId))]]
    ELSE IF f = "U"
    THEN [err |-> NoError,
          pdu |-> [pdu EXCEPT !.u_fields =
                      Append(IF Len(@) = MaxQueue THEN Tail(@) ELSE @,
                             <<Take(SubSeq(field, 1, Len(field) - 1), MaxUName),
                               Take(decoded, MaxUValue)>>)]]
    ELSE [err |-> NoError, pdu |-> pdu]

\* parse_envelope_line without the address_only filter: a VERIFY body takes
\* every field an ENV body takes.
parse_envelope_line_unfiltered(pdu, line, address_only) ==
    LET dispatched(r) ==
            IF r.err # NoError THEN r
            ELSE [err |-> NoError, pdu |-> [r.pdu EXCEPT !.envelope_data = TRUE]]
        decoded(s, d) ==
            IF d.err # NoError THEN [err |-> PduMalformedDataError, pdu |-> pdu]
            ELSE dispatched(Envelope_dispatch(
                     IF s.f # "address_cont" THEN finish_current_address(pdu) ELSE pdu,
                     s.f, s.field, d.val))
        split(s) ==
            IF s.err # NoError THEN [err |-> s.err, pdu |-> pdu]
            ELSE decoded(s, decode_string(s.information))
    IN  IF line = <<>> THEN [err |-> PduMalformedDataError, pdu |-> pdu]
        ELSE split(split_envelope_line(line))

\* EnvelopeHeaderPdu::parse_envelope_line: [err, pdu]; pdu keeps what was
\* changed before a throw.
parse_envelope_line(pdu, line, address_only) ==
    LET dispatched(r) ==
            IF r.err # NoError THEN r
            ELSE [err |-> NoError, pdu |-> [r.pdu EXCEPT !.envelope_data = TRUE]]
        decoded(s, d) ==
            IF d.err # NoError THEN [err |-> PduMalformedDataError, pdu |-> pdu]
            ELSE IF address_only /\ s.f \notin {"address_cont", "to", "cc"}
            THEN [err |-> PduMalformedDataError, pdu |-> pdu]
            ELSE dispatched(Envelope_dispatch(
                     IF s.f # "address_cont" THEN finish_current_address(pdu) ELSE pdu,
                     s.f, s.field, d.val))
        split(s) ==
            IF s.err # NoError THEN [err |-> s.err, pdu |-> pdu]
            ELSE decoded(s, decode_string(s.information))
    IN  IF line = <<>> THEN [err |-> PduMalformedDataError, pdu |-> pdu]
        ELSE split(split_envelope_line(line))

\* Envelope_finalize with the two tests the other way round: an empty
\* to-list is reported before missing envelope data.
Envelope_finalize_to_first(pdu) ==
    LET p == finish_current_address(pdu) IN
    IF p.to_address = <<>> THEN [err |-> PduToRequiredError, pdu |-> p]
    ELSE IF ~p.envelope_data THEN [err |-> PduNoEnvelopeDataError, pdu |-> p]
    ELSE [err |-> NoError, pdu |-> p]

\* EnvelopeHeaderPdu::_finalize: [err, pdu].
Envelope_finalize(pdu) ==
    LET p == finish_current_address(pdu) IN
    IF ~p.envelope_data THEN [err |-> PduNoEnvelopeDataError, pdu |-> p]
    ELSE IF p.to_address = <<>> THEN [err |-> PduToRequiredError, pdu |-> p]
    ELSE [err |-> NoError, pdu |-> p]

\* The content types of TextPdu::parse_options in the order it tries
\* them: name, content type, handling.
TextTypes ==
    << <<(<<97, 115, 99, 105, 105>>), "ascii", "ascii">>,
       <<(<<112, 114, 105, 110, 116, 97, 98, 108, 101>>), "printable", "ascii">>,
       <<(<<101, 110, 118>>), "env", "env">>,
       <<(<<98, 105, 110, 97, 114, 121>>), "binary", "binary">>,
       <<(<<103, 51, 102, 97, 120>>), "g3fax", "binary">>,
       <<(<<116, 108, 120>>), "tlx", "binary">>,
       <<(<<118, 111, 105, 99, 101>>), "voice", "binary">>,
       <<(<<116, 105, 102, 48>>), "tif0", "binary">>,
       <<(<<116, 105, 102, 49>>), "tif1", "binary">>,
       <<(<<116, 116, 120>>), "ttx", "binary">>,
       <<(<<118, 105, 100, 101, 111, 116, 101, 120>>), "videotex", "binary">>,
       <<(<<101, 110, 99, 114, 121, 112, 116, 101, 100>>), "encrypted", "binary">>,
       <<(<<115, 102, 100>>), "sfd", "binary">>,
       <<(<<114, 97, 99, 97, 108>>), "racal", "binary">> >>

\* TextPdu::parse_options: [err, pdu].  The description's decode_string is
\* not guarded, so its std::invalid_argument leaves as it is.
Text_parse_options(pdu, options_in) ==
    IF options_in = <<>> THEN [err |-> NoError, pdu |-> pdu]
    ELSE
    LET options == lstrip(options_in) IN
    IF ~\E i \in 1..Len(TextTypes) : icompare(options, TextTypes[i][1])
    THEN [err |-> PduMalformedDataError, pdu |-> pdu]
    ELSE
    LET i == CHOOSE i \in 1..Len(TextTypes) :
                 /\ icompare(options, TextTypes[i][1])
                 /\ \A j \in 1..(i - 1) : ~icompare(options, TextTypes[j][1])
        p1 == [pdu EXCEPT !.content_type = TextTypes[i][2],
                          !.content_type_handling = TextTypes[i][3]]
        delim == find(options, 58)
        description == IF delim < 0 THEN <<>> ELSE strip(Drop(options, delim + 1))
    IN
    IF description = <<>> THEN [err |-> NoError, pdu |-> p1]
    ELSE LET d == decode_string(description) IN
         IF d.err # NoError THEN [err |-> d.err, pdu |-> p1]
         ELSE [err |-> NoError, pdu |-> [p1 EXCEPT !.description = d.val]]

\* TextPdu::_parse_line is an empty stub.
Text_parse_line(pdu, line) == [err |-> NoError, pdu |-> pdu]

\* TextPdu::_finalize: a TEXT body completes at its END line.
Text_finalize(pdu) == [err |-> NoError, pdu |-> pdu]

\* parse_options behind the has_options predicate: a body of a type
\* without options takes the default of Pdu.
Body_parse_options_gated(pdu, options) ==
    IF ~has_options(pdu.type) THEN Pdu_parse_options(pdu, options)
    ELSE IF pdu.type \in {"scan", "turn"} THEN Query_parse_options(pdu, options)
    ELSE IF pdu.type = "verify" THEN Envelope_parse_options(pdu, options)
    ELSE IF pdu.type = "text" THEN Text_parse_options(pdu, options)
    ELSE Pdu_parse_options(pdu, options)

\* The virtual parse_options of the body's alternative.
Body_parse_options(pdu, options) ==
    IF pdu.type \in {"scan", "turn"} THEN Query_parse_options(pdu, options)
    ELSE IF pdu.type \in {"verify", "env"} THEN Envelope_parse_options(pdu, options)
    ELSE IF pdu.type = "text" THEN Text_parse_options(pdu, options)
    ELSE Pdu_parse_options(pdu, options)

\* Pdu::parse_line: [err, pdu].
Pdu_parse_line(pdu, line) ==
    IF is_single_line(pdu.type) THEN [err |-> PduSyntaxError, pdu |-> pdu]
    ELSE IF pdu.type = "comment" THEN Comment_parse_line(pdu, line)
    ELSE IF pdu.type \in {"verify", "env"}
    THEN parse_envelope_line(pdu, line, pdu.type = "verify")
    ELSE IF pdu.type = "text" THEN Text_parse_line(pdu, line)
    ELSE [err |-> RuntimeError, pdu |-> pdu]

\* Pdu::finalize: [err, pdu].
Pdu_finalize(pdu) ==
    IF is_single_line(pdu.type) THEN [err |-> PduSyntaxError, pdu |-> pdu]
    ELSE IF pdu.type = "comment" THEN [err |-> NoError, pdu |-> pdu]
    ELSE IF pdu.type \in {"verify", "env"} THEN Envelope_finalize(pdu)
    ELSE IF pdu.type = "text" THEN Text_finalize(pdu)
    ELSE [err |-> RuntimeError, pdu |-> pdu]

\* ----------------------------------------------------------- PduParser

\* The alternatives of PduVariant that parse_first_line can emplace.
SupportedTypes ==
    {"busy", "create", "term", "send", "scan", "turn", "comment", "verify", "env", "text"}

\* The outcome of a framer call: the members afterwards, the exception
\* that left the call (raised), the exception the body threw into the
\* sticky slot (thrown), and the running sum that was compared with the
\* sender's checksum (-1 when no comparison took place).
Outcome(st, ty, er, pdu, raised, thrown, compared) ==
    [state |-> st, type |-> ty, error |-> er, pdu |-> pdu,
     raised |-> raised, thrown |-> thrown, compared |-> compared]

\* parse_first_line that adds a multi-line opening line to the checksum
\* of the body the framer holds from before.
parse_first_line_running(f, line) ==
    LET keep(e) == Outcome(f.state, f.type, f.error, f.pdu, e, NoError, -1)
        \* the body was emplaced and _current_type set: [err, pdu, cmp, options]
        single(type, line_parse, c) ==
            [err |-> c.err, pdu |-> [NewPdu(type) EXCEPT !.checksum = c.checksum],
             cmp |-> IF c.compared THEN c.checksum ELSE -1,
             options |-> rstrip(IF find(line_parse, 42) < 0 THEN line_parse
                                ELSE Take(line_parse, find(line_parse, 42)))]
        multi(type, line_parse) ==
            IF find(line, 42) >= 0
            THEN [err |-> PduSyntaxError, pdu |-> NewPdu(type), cmp |-> -1,
                  options |-> <<>>]
            ELSE [err |-> NoError, pdu |-> [NewPdu(type) EXCEPT !.checksum = add_line(f.pdu.checksum, line)],
                  cmp |-> -1, options |-> rstrip(line_parse)]
        finish(type, cmp, o) ==
            IF o.err # NoError
            THEN Outcome(f.state, type, f.error, o.pdu, o.err, NoError, cmp)
            ELSE Outcome(IF is_single_line(type) THEN "complete" ELSE "parsing",
                         type, f.error, o.pdu, NoError, NoError, cmp)
        summed(type, pre) ==
            IF pre.err # NoError
            THEN Outcome(f.state, type, f.error, pre.pdu, pre.err, NoError, pre.cmp)
            ELSE finish(type, pre.cmp, Body_parse_options(pre.pdu, pre.options))
        started(line_strip, t) ==
            IF ~t.found THEN keep(PduSyntaxError)
            ELSE IF t.cmd \notin SupportedTypes THEN keep(PduSyntaxError)
            ELSE summed(t.cmd,
                        IF is_single_line(t.cmd)
                        THEN single(t.cmd, lstrip(t.rest),
                                    validate_checksum(NewPdu(t.cmd).checksum, line_strip))
                        ELSE multi(t.cmd, lstrip(t.rest)))
        stripped(s) ==
            IF s.err # NoError THEN keep(s.err) ELSE started(s.val, parse_pdu_start(s.val))
        validated(v) == IF v # NoError THEN keep(v) ELSE stripped(strip_pdu_crlf(line))
    IN  validated(validate_pdu_line(line))

\* PduParser::parse_first_line on the framer members f = [state, type,
\* error, pdu].
parse_first_line(f, line) ==
    LET keep(e) == Outcome(f.state, f.type, f.error, f.pdu, e, NoError, -1)
        \* the body was emplaced and _current_type set: [err, pdu, cmp, options]
        single(type, line_parse, c) ==
            [err |-> c.err, pdu |-> [NewPdu(type) EXCEPT !.checksum = c.checksum],
             cmp |-> IF c.compared THEN c.checksum ELSE -1,
             options |-> rstrip(IF find(line_parse, 42) < 0 THEN line_parse
                                ELSE Take(line_parse, find(line_parse, 42)))]
        multi(type, line_parse) ==
            IF find(line, 42) >= 0
            THEN [err |-> PduSyntaxError, pdu |-> NewPdu(type), cmp |-> -1,
                  options |-> <<>>]
            ELSE [err |-> NoError, pdu |-> [NewPdu(type) EXCEPT !.checksum = add_line(@, line)],
                  cmp |-> -1, options |-> rstrip(line_parse)]
        finish(type, cmp, o) ==
            IF o.err # NoError
            THEN Outcome(f.state, type, f.error, o.pdu, o.err, NoError, cmp)
            ELSE Outcome(IF is_single_line(type) THEN "complete" ELSE "parsing",
                         type, f.error, o.pdu, NoError, NoError, cmp)
        summed(type, pre) ==
            IF pre.err # NoError
            THEN Outcome(f.state, type, f.error, pre.pdu, pre.err, NoError, pre.cmp)
            ELSE finish(type, pre.cmp, Body_parse_options(pre.pdu, pre.options))
        started(line_strip, t) ==
            IF ~t.found THEN keep(PduSyntaxError)
            ELSE IF t.cmd \notin SupportedTypes THEN keep(PduSyntaxError)
            ELSE summed(t.cmd,
                        IF is_single_line(t.cmd)
                        THEN single(t.cmd, lstrip(t.rest),
                                    validate_checksum(NewPdu(t.cmd).checksum, line_strip))
                        ELSE multi(t.cmd, lstrip(t.rest)))
        stripped(s) ==
            IF s.err # NoError THEN keep(s.err) ELSE started(s.val, parse_pdu_start(s.val))
        validated(v) == IF v # NoError THEN keep(v) ELSE stripped(strip_pdu_crlf(line))
    IN  validated(validate_pdu_line(line))

\* PduParser::parse_end_line: [err, pdu, state, compared].
parse_end_line(f, line) ==
    LET keep(e) == [err |-> e, pdu |-> f.pdu, state |-> f.state, compared |-> -1]
        typed(p1, cmp, end_type) ==
            [err |-> IF ~end_type.found THEN PduSyntaxError
                     ELSE IF end_type.cmd # f.pdu.type THEN PduSyntaxError
                     ELSE IF lstrip(end_type.rest) # <<>> THEN PduSyntaxError
                     ELSE NoError,
             pdu |-> p1,
             state |-> IF end_type.found /\ end_type.cmd = f.pdu.type
                          /\ lstrip(end_type.rest) = <<>>
                       THEN "complete" ELSE f.state,
             compared |-> cmp]
        summed(c, rest) ==
            IF c.err # NoError
            THEN [err |-> c.err, pdu |-> [f.pdu EXCEPT !.checksum = c.checksum],
                  state |-> f.state, compared |-> IF c.compared THEN c.checksum ELSE -1]
            ELSE typed([f.pdu EXCEPT !.checksum = c.checksum],
                       IF c.compared THEN c.checksum ELSE -1,
                       parse_pdu_type(lstrip(IF find(rest, 42) < 0 THEN rest
                                             ELSE Take(rest, find(rest, 42)))))
        started(line_strip, t) ==
            IF ~t.found THEN keep(PduSyntaxError)
            ELSE IF t.cmd # "end" THEN keep(PduSyntaxError)
            ELSE summed(validate_checksum(f.pdu.checksum, line_strip), t.rest)
        stripped(s) ==
            IF s.err # NoError THEN keep(s.err) ELSE started(s.val, parse_pdu_start(s.val))
        validated(v) == IF v # NoError THEN keep(v) ELSE stripped(strip_pdu_crlf(line))
    IN  validated(validate_pdu_line(line))

\* The lambda as a FUZZING_BUILD compiles it: every information line is
\* dispatched to the body and the last error thrown is the one stored.
dispatch_information_always(f, line) ==
    LET stored(b) ==
            Outcome(f.state, f.type, IF b.err # NoError THEN b.err ELSE f.error,
                    b.pdu, NoError, b.err, -1)
    IN  stored(Pdu_parse_line([f.pdu EXCEPT !.checksum = add_line(@, line)], line))

\* The lambda parse_information_line visits the body with, and the
\* catch (...) around it: the line is summed, dispatched unless an error
\* is already stored, and what the body throws is stored.
dispatch_information(f, line) ==
    LET stored(summed, b) ==
            IF f.error # NoError
            THEN Outcome(f.state, f.type, f.error, summed, NoError, NoError, -1)
            ELSE Outcome(f.state, f.type, b.err, b.pdu, NoError, b.err, -1)
        dispatch(summed) == stored(summed, Pdu_parse_line(summed, line))
    IN  dispatch([f.pdu EXCEPT !.checksum = add_line(@, line)])

\* parse_information_line that raises a stored body error before it looks
\* at the END line.
parse_information_line_body_first(f, line) ==
    LET finalized(e, fin) ==
            Outcome(e.state, f.type, f.error, fin.pdu, fin.err, NoError, e.compared)
        ended(e) ==
            IF e.err # NoError
            THEN Outcome(e.state, f.type, f.error, e.pdu, e.err, NoError, e.compared)
            ELSE finalized(e, Pdu_finalize(e.pdu))
    IN  IF line = <<>>
        THEN Outcome(f.state, f.type, f.error, f.pdu, NoError, NoError, -1)
        ELSE IF line[1] = 47
        THEN IF f.error # NoError
             THEN Outcome(f.state, f.type, f.error, f.pdu, f.error, NoError, -1)
             ELSE ended(parse_end_line(f, line))
        ELSE dispatch_information(f, line)

\* PduParser::parse_information_line.
parse_information_line(f, line) ==
    LET finalized(e, fin) ==
            Outcome(e.state, f.type, f.error, fin.pdu, fin.err, NoError, e.compared)
        ended(e) ==
            IF e.err # NoError
            THEN Outcome(e.state, f.type, f.error, e.pdu, e.err, NoError, e.compared)
            ELSE IF f.error # NoError
            THEN Outcome(e.state, f.type, f.error, e.pdu, f.error, NoError, e.compared)
            ELSE finalized(e, Pdu_finalize(e.pdu))
    IN  IF line = <<>>
        THEN Outcome(f.state, f.type, f.error, f.pdu, NoError, NoError, -1)
        ELSE IF line[1] = 47 THEN ended(parse_end_line(f, line))
        ELSE dispatch_information(f, line)

\* parse_line with the complete case falling through to the idle case: a
\* line after a completed PDU opens the next one.
parse_line_restart(f, line) ==
    IF f.state = "parsing" THEN parse_information_line(f, line)
    ELSE parse_first_line(f, line)

\* parse_line as a FUZZING_BUILD compiles it: a line after a completed PDU
\* is dropped without an error.
parse_line_ignore(f, line) ==
    IF f.state = "idle" THEN parse_first_line(f, line)
    ELSE IF f.state = "parsing" THEN parse_information_line(f, line)
    ELSE Outcome(f.state, f.type, f.error, f.pdu, NoError, NoError, -1)

\* PduParser::parse_line.
parse_line(f, line) ==
    IF f.state = "idle" THEN parse_first_line(f, line)
    ELSE IF f.state = "parsing" THEN parse_information_line(f, line)
    ELSE Outcome(f.state, f.type, f.error, f.pdu, PduSyntaxError, NoError, -1)

\* PduParser::reset: the body is left as it is.
reset(f) == [f EXCEPT !.state = "idle", !.type = "none", !.error = NoError]

\* What the move in extract_pdu's return leaves in _current_pdu: strings
\* and vectors are emptied, an engaged optional stays engaged around its
\* moved-from value, and the scalar members are copied and stay.
MovedFromOptional(o, moved) == IF o = <<>> THEN <<>> ELSE <<moved>>

MovedFromPdu(pdu) ==
    [pdu EXCEPT !.q_subject = <<>>, !.q_from = <<>>,
                !.current_address = MovedFromAddress(@),
                !.from_address = IF @ = <<>> THEN <<>> ELSE <<MovedFromAddress(@[1])>>,
                !.to_address = <<>>, !.cc_address = <<>>,
                !.subject = MovedFromOptional(@, <<>>),
                !.message_id = MovedFromOptional(@, <<>>),
                !.source_message_id = <<>>, !.u_fields = <<>>,
                !.description = <<>>]

\* extract_pdu without its state check.
extract_pdu_unchecked(f) ==
    [raised |-> NoError, f |-> [reset(f) EXCEPT !.pdu = MovedFromPdu(@)],
     returned |-> <<f.pdu>>]

\* PduParser::extract_pdu: [raised, f, returned]; returned is <<body>> on
\* success and <<>> when it throws.
extract_pdu(f) ==
    IF f.state # "complete" THEN [raised |-> RuntimeError, f |-> f, returned |-> <<>>]
    ELSE [raised |-> NoError, f |-> [reset(f) EXCEPT !.pdu = MovedFromPdu(@)],
          returned |-> <<f.pdu>>]

\* ------------------------------------------------------------- the lines

\* "/create*ZZZZ\r\n"
L_create_wild == <<47, 99, 114, 101, 97, 116, 101, 42, 90, 90, 90, 90, 13, 10>>
\* "/create*02CD\r"  (the sender's checksum is the right one)
L_create_sum == <<47, 99, 114, 101, 97, 116, 101, 42, 48, 50, 67, 68, 13>>
\* "/create*1234\r"  (four hex digits, the wrong value)
L_create_bad == <<47, 99, 114, 101, 97, 116, 101, 42, 49, 50, 51, 52, 13>>
\* "/create*QWER\r"  (not hex digits)
L_create_nonhex == <<47, 99, 114, 101, 97, 116, 101, 42, 81, 87, 69, 82, 13>>
\* "/scan FOLDER=(DESK)*zzzz\r"
L_scan == <<47, 115, 99, 97, 110, 32, 70, 79, 76, 68, 69, 82, 61, 40, 68, 69, 83, 75, 41, 42, 122, 122, 122, 122, 13>>
\* "/verify\r\n"
L_verify == <<47, 118, 101, 114, 105, 102, 121, 13, 10>>
\* "/env\r\n"
L_env == <<47, 101, 110, 118, 13, 10>>
\* "/comment\r\n"
L_comment == <<47, 99, 111, 109, 109, 101, 110, 116, 13, 10>>
\* "/text ASCII:%zz\r\n"  (a description with a broken escape)
L_text_badescape == <<47, 116, 101, 120, 116, 32, 65, 83, 67, 73, 73, 58, 37, 122, 122, 13, 10>>
\* "/verify*zzzz\r"  (a checksum on a multi-line opening)
L_verify_star == <<47, 118, 101, 114, 105, 102, 121, 42, 122, 122, 122, 122, 13>>
\* "/verify BOGUS\r"  (an option the envelope does not know)
L_verify_bogus == <<47, 118, 101, 114, 105, 102, 121, 32, 66, 79, 71, 85, 83, 13>>
\* "/hdr\r\n"  (a keyword of the trie without a body class)
L_hdr == <<47, 104, 100, 114, 13, 10>>
\* "To: Gandalf\r\n"
L_to == <<84, 111, 58, 32, 71, 97, 110, 100, 97, 108, 102, 13, 10>>
\* "Cc: Frodo\r\n"
L_cc == <<67, 99, 58, 32, 70, 114, 111, 100, 111, 13, 10>>
\* "From: Frodo\r\n"
L_from == <<70, 114, 111, 109, 58, 32, 70, 114, 111, 100, 111, 13, 10>>
\* "Date: garbage\r\n"
L_date_garbage == <<68, 97, 116, 101, 58, 32, 103, 97, 114, 98, 97, 103, 101, 13, 10>>
\* "Invalid / in text\r\n"
L_slash_in_text == <<73, 110, 118, 97, 108, 105, 100, 32, 47, 32, 105, 110, 32, 116, 101, 120, 116, 13, 10>>
\* "\xC1bc\r\n"  (the first byte has its top bit set)
L_highbit == <<193, 98, 99, 13, 10>>
\* "/end verify*ZZZZ\r\n"
L_end_verify == <<47, 101, 110, 100, 32, 118, 101, 114, 105, 102, 121, 42, 90, 90, 90, 90, 13, 10>>
\* "/end env*zzzz\r"
L_end_env == <<47, 101, 110, 100, 32, 101, 110, 118, 42, 122, 122, 122, 122, 13>>
\* "/end comment*zzzz\r\n"
L_end_comment == <<47, 101, 110, 100, 32, 99, 111, 109, 109, 101, 110, 116, 42, 122, 122, 122, 122, 13, 10>>
\* "/end verify*0B01\r\n"  (0B01 is the sum of "/verify\r\n", "To: Gandalf\r\n"
\* and "/end verify*")
L_end_verify_sum == <<47, 101, 110, 100, 32, 118, 101, 114, 105, 102, 121, 42, 48, 66, 48, 49, 13, 10>>
\* "/end verify*1234\r"
L_end_verify_bad == <<47, 101, 110, 100, 32, 118, 101, 114, 105, 102, 121, 42, 49, 50, 51, 52, 13>>
\* "/end verify garbage*ZZZ\r\n"  (the '*' is not five from the end)
L_end_verify_short == <<47, 101, 110, 100, 32, 118, 101, 114, 105, 102, 121, 32, 103, 97, 114, 98, 97, 103, 101, 42, 90, 90, 90, 13, 10>>
\* "/end verify x*ZZZZ\r"  (data after the type)
L_end_verify_trailing == <<47, 101, 110, 100, 32, 118, 101, 114, 105, 102, 121, 32, 120, 42, 90, 90, 90, 90, 13>>

\* The lines a client sends in this model.
Lines ==
    {<<>>, L_create_wild, L_create_sum, L_create_bad, L_create_nonhex, L_scan,
     L_verify, L_env, L_comment, L_text_badescape, L_verify_star, L_verify_bogus,
     L_hdr, L_to, L_cc, L_from, L_date_garbage, L_slash_in_text, L_highbit,
     L_end_verify, L_end_env, L_end_comment, L_end_verify_sum, L_end_verify_bad,
     L_end_verify_short, L_end_verify_trailing}

\* ------------------------------------------------------ the framer at work

\* The most information and END lines that enter the checksum of one PDU.
MaxLines == 3

VARIABLES
    state,          \* PduParser::_state
    current_type,   \* PduParser::_current_type, "none" when it has no value
    current_error,  \* PduParser::_current_error, NoError when it has no value
    current_pdu,    \* PduParser::_current_pdu
    call,           \* the last call on the framer and what came back from it
    fed,            \* sum of the low seven bits of the accepted opening line
                    \* and of the information lines delivered since
    nlines,         \* lines that entered the checksum since the opening line
    sum, total, added,                  \* a PduChecksum on its own
    cmp_checksum, cmp_text, cmp_result, \* one call of compare_text_checksum
    codec,          \* one run of the string codec
    mci,            \* one call of is_mciid and canonicalize_mciid
    raw,            \* one RawAddress and the calls made on it
    zoned,          \* one call of Date::parse
    cursor,         \* one call of Trie::find on a string_view
    arrived         \* the lines delivered to a framer inside one body, in order

framer_vars == <<state, current_type, current_error, current_pdu, call, fed, nlines>>
checksum_vars == <<sum, total, added>>
compare_vars == <<cmp_checksum, cmp_text, cmp_result>>
pure_vars == <<codec, mci>>
unit_vars == <<raw, zoned, cursor, arrived>>
vars == <<framer_vars, checksum_vars, compare_vars, pure_vars, unit_vars>>

\* The sum of the low seven bits of the bytes of s, as a number.
RECURSIVE Sum7(_)
Sum7(s) == IF s = <<>> THEN 0 ELSE (Head(s) % 128) + Sum7(Tail(s))

\* What a line is, from its first byte and its keyword.
line_class(line) ==
    IF line = <<>> THEN "empty"
    ELSE IF line[1] # 47 THEN "info"
    ELSE LET t == parse_pdu_start(line) IN
         IF ~t.found THEN "other"
         ELSE IF t.cmd = "end" THEN "end"
         ELSE IF is_single_line(t.cmd) THEN "single"
         ELSE "multi"

Framer == [state |-> state, type |-> current_type, error |-> current_error,
           pdu |-> current_pdu]

NoCall(op) ==
    [op |-> op, cls |-> "none", instate |-> "idle", raised |-> NoError,
     thrown |-> NoError, compared |-> -1, expected |-> -1, returned |-> <<>>]

FramerInit ==
    /\ state = "idle"
    /\ current_type = "none"
    /\ current_error = NoError
    /\ current_pdu = NewPdu("busy")
    /\ call = NoCall("init")
    /\ fed = 0
    /\ nlines = 0

ChecksumIdle == sum = 0 /\ total = 0 /\ added = 0
\* cmp_result is the code of the error thrown, 0 for a return, -1 before the call.
CompareIdle == cmp_checksum = 0 /\ cmp_text = <<>> /\ cmp_result = -1

\* No string was given to the codec and no id to is_mciid.
CodecIdle ==
    codec = [phase |-> "idle", text |-> <<>>, enc |-> <<>>, pos |-> 0, run |-> 0,
             out |-> <<>>, err |-> NoError, out7 |-> <<>>, err7 |-> NoError]
MciIdle ==
    mci = [phase |-> "idle", impl |-> "regex", id |-> <<>>, valid |-> FALSE,
           canonical |-> <<>>, err |-> NoError]
\* No RawAddress was built and no timestamp parsed on its own.
RawIdle ==
    raw = [phase |-> "idle", addr |-> NewAddress, line |-> <<>>, field |-> <<>>,
           before |-> NewAddress, err |-> NoError, calls |-> 0]
ZonedIdle ==
    zoned = [phase |-> "idle", line |-> <<>>, err |-> NoError, date |-> <<>>]
CursorIdle ==
    cursor = [phase |-> "idle", str |-> <<>>, found |-> FALSE, cmd |-> "none", rest |-> <<>>,
              word |-> <<>>, tail |-> <<>>, type |-> "none"]
ArrivedIdle == arrived = <<>>
UnitIdle == RawIdle /\ ZonedIdle /\ CursorIdle /\ ArrivedIdle
PureIdle == CodecIdle /\ MciIdle /\ UnitIdle

Init == FramerInit /\ ChecksumIdle /\ CompareIdle /\ PureIdle

\* parser.parse_line(line) on the framer, with at most `most` lines entering
\* the checksum of one PDU.
ParseLineStep(line, most) ==
    LET Returned(o) ==
            /\ state' = o.state
            /\ current_type' = o.type
            /\ current_error' = o.error
            /\ current_pdu' = o.pdu
            /\ call' = [op |-> "parse_line", cls |-> line_class(line), instate |-> state,
                        raised |-> o.raised, thrown |-> o.thrown,
                        compared |-> o.compared,
                        expected |-> IF o.compared < 0 THEN -1
                                     ELSE (fed + Sum7(Take(line, find(line, 42) + 1))) % 65536,
                        returned |-> <<>>]
            /\ fed' = IF state = "idle" /\ o.state = "parsing" THEN Sum7(line) % 65536
                      ELSE IF state = "parsing" /\ line_class(line) = "info"
                      THEN (fed + Sum7(line)) % 65536
                      ELSE fed
            /\ nlines' = IF state = "idle" THEN 0
                         ELSE IF o.pdu.checksum # current_pdu.checksum THEN nlines + 1
                         ELSE nlines
    IN
    /\ state = "parsing" => nlines < most
    /\ Returned(parse_line(Framer, line))

\* parser.parse_line(line)
ParseLine(line) ==
    /\ ParseLineStep(line, MaxLines)
    /\ UNCHANGED <<checksum_vars, compare_vars, pure_vars, unit_vars>>

\* parser.extract_pdu() on the framer.
ExtractStep ==
    LET Returned(x) ==
            /\ state' = x.f.state
            /\ current_type' = x.f.type
            /\ current_error' = x.f.error
            /\ current_pdu' = x.f.pdu
            /\ call' = [NoCall("extract_pdu") EXCEPT !.instate = state,
                                                     !.raised = x.raised,
                                                     !.returned = x.returned]
            /\ fed' = IF x.raised = NoError THEN 0 ELSE fed
            /\ nlines' = IF x.raised = NoError THEN 0 ELSE nlines
    IN
    /\ Returned(extract_pdu(Framer))

\* parser.extract_pdu()
ExtractPdu ==
    /\ ExtractStep
    /\ UNCHANGED <<checksum_vars, compare_vars, pure_vars, unit_vars>>

\* parser.reset() on the framer.
ResetStep ==
    LET r == reset(Framer) IN
    /\ state' = r.state
    /\ current_type' = r.type
    /\ current_error' = r.error
    /\ current_pdu' = r.pdu
    /\ call' = [NoCall("reset") EXCEPT !.instate = state]
    /\ fed' = 0
    /\ nlines' = 0

\* parser.reset()
Reset ==
    /\ ResetStep
    /\ UNCHANGED <<checksum_vars, compare_vars, pure_vars, unit_vars>>

Next ==
    \/ \E line \in Lines : ParseLine(line)
    \/ ExtractPdu
    \/ Reset

Spec == Init /\ [][Next]_vars

\* ------------------------------------------------- a PduChecksum on its own

\* The longest line fed to the checksum on its own, every byte 0xFF: its
\* low seven bits sum past 2^16 in nine lines.
LongLen == 64
LongLine == [i \in 1..LongLen |-> 255]

\* The most add_line calls on one PduChecksum.
MaxAdds == 9

ChecksumLines == {L_to, L_highbit, L_verify, L_end_verify_sum, <<255>>, LongLine}

ChecksumInit == FramerInit /\ ChecksumIdle /\ CompareIdle /\ PureIdle

\* checksum.add_line(line)
AddLine(line) ==
    /\ added < MaxAdds
    /\ sum' = add_line(sum, line)
    /\ total' = total + Sum7(line)
    /\ added' = added + 1
    /\ UNCHANGED <<framer_vars, compare_vars, pure_vars, unit_vars>>

ChecksumNext == \E line \in ChecksumLines : AddLine(line)

SpecChecksum == ChecksumInit /\ [][ChecksumNext]_vars

\* ------------------------------------------- compare_text_checksum on its own

\* The bytes a sender's checksum text is drawn from: '0' '1' 'A' 'a' 'G'
\* 'Z' 'z'.
CompareAlphabet == {48, 49, 65, 97, 71, 90, 122}

CompareTexts ==
    {<<a, b, c, d>> : a \in CompareAlphabet, b \in CompareAlphabet,
                      c \in CompareAlphabet, d \in CompareAlphabet}

\* Running sums: 0000, 01A1, 1010, AAAA and one no text above spells.
CompareSums == {0, 417, 4112, 43690, 4660}

CompareInit ==
    /\ FramerInit /\ ChecksumIdle /\ PureIdle
    /\ cmp_checksum \in CompareSums
    /\ cmp_text \in CompareTexts
    /\ cmp_result = -1

\* compare_text_checksum(cmp_checksum, cmp_text)
Compare ==
    /\ cmp_result = -1
    /\ cmp_result' = compare_text_checksum(cmp_checksum, cmp_text).code
    /\ UNCHANGED <<framer_vars, checksum_vars, cmp_checksum, cmp_text, pure_vars, unit_vars>>

CompareNext == Compare

SpecCompare == CompareInit /\ [][CompareNext]_vars

\* ------------------------------------------------- one line, one framer

\* The framer members as a record, and the record a call leaves.
FreshFramer ==
    [state |-> "idle", type |-> "none", error |-> NoError, pdu |-> NewPdu("busy")]

AsFramer(o) == [state |-> o.state, type |-> o.type, error |-> o.error, pdu |-> o.pdu]

\* The framer after parse_line on each line of lines in turn.
RECURSIVE After(_, _)
After(f, lines) ==
    IF lines = <<>> THEN f
    ELSE After(AsFramer(parse_line(f, Head(lines))), Tail(lines))

RECURSIVE Sum7All(_)
Sum7All(lines) == IF lines = <<>> THEN 0 ELSE Sum7(Head(lines)) + Sum7All(Tail(lines))

\* What an opening line starts with: "/", "", "x", "//"
OpeningHeads ==
    {<<47>>,
     <<>>,
     <<120>>,
     <<47, 47>>}

\* The type word of an opening line: "create", "Busy", "verify", "COMMENT",
\* "text", "hdr", "end", "bogus", "cre", "createx", ""
OpeningWords ==
    {<<99, 114, 101, 97, 116, 101>>,
     <<66, 117, 115, 121>>,
     <<118, 101, 114, 105, 102, 121>>,
     <<67, 79, 77, 77, 69, 78, 84>>,
     <<116, 101, 120, 116>>,
     <<104, 100, 114>>,
     <<101, 110, 100>>,
     <<98, 111, 103, 117, 115>>,
     <<99, 114, 101>>,
     <<99, 114, 101, 97, 116, 101, 120>>,
     <<>>}

\* What follows the type word: "", " ", "*ZZZZ", " *zzzz", "*ZZZ", "*ZZZZ*",
\* " x*ZZZZ", " ASCII:a/b", "*ZZZZ \t", "*02CD", "*ZZZZ9"
OpeningRests ==
    {<<>>,
     <<32>>,
     <<42, 90, 90, 90, 90>>,
     <<32, 42, 122, 122, 122, 122>>,
     <<42, 90, 90, 90>>,
     <<42, 90, 90, 90, 90, 42>>,
     <<32, 120, 42, 90, 90, 90, 90>>,
     <<32, 65, 83, 67, 73, 73, 58, 97, 47, 98>>,
     <<42, 90, 90, 90, 90, 32, 9>>,
     <<42, 48, 50, 67, 68>>,
     <<42, 90, 90, 90, 90, 57>>}

\* How an opening line ends: "", "\r", "\r\n", "\n", "\r*ZZZZ"
OpeningTails ==
    {<<>>,
     <<13>>,
     <<13, 10>>,
     <<10>>,
     <<13, 42, 90, 90, 90, 90>>}

OpeningLines ==
    {h \o w \o r \o t : h \in OpeningHeads, w \in OpeningWords,
                        r \in OpeningRests, t \in OpeningTails}

\* What an END line starts with: "/end", "/END", "/eNd", "/en", "/env"
EndHeads ==
    {<<47, 101, 110, 100>>,
     <<47, 69, 78, 68>>,
     <<47, 101, 78, 100>>,
     <<47, 101, 110>>,
     <<47, 101, 110, 118>>}

\* Between END and the type word: "", " ", "\t "
EndGaps ==
    {<<>>,
     <<32>>,
     <<9, 32>>}

\* The type word of an END line: "verify", "VERIFY", "Verify", "comment", "",
\* "verif", "verifyx"
EndWords ==
    {<<118, 101, 114, 105, 102, 121>>,
     <<86, 69, 82, 73, 70, 89>>,
     <<86, 101, 114, 105, 102, 121>>,
     <<99, 111, 109, 109, 101, 110, 116>>,
     <<>>,
     <<118, 101, 114, 105, 102>>,
     <<118, 101, 114, 105, 102, 121, 120>>}

\* Between the type word and the '*': "", " \t", " garbage", "1"
EndExtras ==
    {<<>>,
     <<32, 9>>,
     <<32, 103, 97, 114, 98, 97, 103, 101>>,
     <<49>>}

\* The checksum of an END line: "*ZZZZ", "*zZzZ", "*1234", ""
EndSums ==
    {<<42, 90, 90, 90, 90>>,
     <<42, 122, 90, 122, 90>>,
     <<42, 49, 50, 51, 52>>,
     <<>>}

\* How an END line ends: "\r", "\r\n"
EndTails ==
    {<<13>>,
     <<13, 10>>}

EndLines ==
    {h \o g \o w \o x \o s \o t : h \in EndHeads, g \in EndGaps, w \in EndWords,
                                  x \in EndExtras, s \in EndSums, t \in EndTails}

\* The field tags of an envelope line: "To:", "Cc:", "From:", "from:",
\* "Date:", "Source-Date:", "Subject:", "Message-ID:", "Source-Message-ID:",
\* "Handling:", "U-Foo:", "u-:", " EMS:", "Bogus:", "U-Foo"
HeaderFields ==
    {<<84, 111, 58>>,
     <<67, 99, 58>>,
     <<70, 114, 111, 109, 58>>,
     <<102, 114, 111, 109, 58>>,
     <<68, 97, 116, 101, 58>>,
     <<83, 111, 117, 114, 99, 101, 45, 68, 97, 116, 101, 58>>,
     <<83, 117, 98, 106, 101, 99, 116, 58>>,
     <<77, 101, 115, 115, 97, 103, 101, 45, 73, 68, 58>>,
     <<83, 111, 117, 114, 99, 101, 45, 77, 101, 115, 115, 97, 103, 101, 45, 73, 68, 58>>,
     <<72, 97, 110, 100, 108, 105, 110, 103, 58>>,
     <<85, 45, 70, 111, 111, 58>>,
     <<117, 45, 58>>,
     <<32, 69, 77, 83, 58>>,
     <<66, 111, 103, 117, 115, 58>>,
     <<85, 45, 70, 111, 111>>}

\* The information of an envelope line: "", " Frodo", " Sun Aug 11, 2024
\* 12:00 AM GMT", " a%zzb", " a%2Fb"
HeaderValues ==
    {<<>>,
     <<32, 70, 114, 111, 100, 111>>,
     <<32, 83, 117, 110, 32, 65, 117, 103, 32, 49, 49, 44, 32, 50, 48, 50, 52, 32, 49, 50, 58, 48, 48, 32, 65, 77, 32, 71, 77, 84>>,
     <<32, 97, 37, 122, 122, 98>>,
     <<32, 97, 37, 50, 70, 98>>}

\* How an envelope line ends: "\r\n", "\r", ""
HeaderTails ==
    {<<13, 10>>,
     <<13>>,
     <<>>}

HeaderLines ==
    {f \o v \o t : f \in HeaderFields, v \in HeaderValues, t \in HeaderTails}

\* A framer with the lines it has taken, and the line delivered to it next:
\* an opening line to an idle framer, an END line or an envelope line to a
\* framer inside a VERIFY or COMMENT body.
FramingCases ==
    ({<<>>} \X OpeningLines)
    \cup ({<<L_verify, L_to>>, <<L_comment>>} \X EndLines)
    \cup ({<<L_verify>>, <<L_verify, L_to>>, <<L_verify, L_to, L_cc>>} \X HeaderLines)

FramingInit ==
    LET Given(f, c) ==
            /\ state = f.state
            /\ current_type = f.type
            /\ current_error = f.error
            /\ current_pdu = f.pdu
            /\ fed = Sum7All(c[1]) % 65536
            /\ nlines = IF c[1] = <<>> THEN 0 ELSE Len(c[1]) - 1
            /\ cmp_text = c[2]
    IN
    /\ \E c \in FramingCases : Given(After(FreshFramer, c[1]), c)
    /\ call = NoCall("init")
    /\ ChecksumIdle /\ PureIdle
    /\ cmp_checksum = 0
    /\ cmp_result = -1

\* parser.parse_line(cmp_text), once.
Deliver == call.op = "init" /\ ParseLine(cmp_text)

FramingNext == Deliver

SpecFraming == FramingInit /\ [][FramingNext]_vars

\* ------------------------------------------------------------ properties



IsParseLine(c) == c.op = "parse_line"

\* C1: the framer state changes only idle->parsing on an accepted
\* multi-line opening line, idle->complete on an accepted single-line
\* opening line, parsing->complete on an END line, and to idle through
\* extract_pdu() or reset(); a parse_line that raises in idle leaves idle;
\* an information line never changes the state.
C1_StateChanges ==
    [][ /\ state' # state =>
            \/ /\ state = "idle" /\ state' = "parsing"
               /\ IsParseLine(call') /\ call'.cls = "multi" /\ call'.raised = NoError
            \/ /\ state = "idle" /\ state' = "complete"
               /\ IsParseLine(call') /\ call'.cls = "single" /\ call'.raised = NoError
            \/ /\ state = "parsing" /\ state' = "complete"
               /\ IsParseLine(call') /\ call'.cls = "end"
            \/ /\ state' = "idle"
               /\ call'.op \in {"extract_pdu", "reset"}
        /\ (IsParseLine(call') /\ state = "idle" /\ call'.raised # NoError)
               => state' = "idle"
        /\ (IsParseLine(call') /\ call'.cls = "info") => state' = state
      ]_vars

\* C1: an END line took the framer from parsing to complete.
C1_Witness ==
    /\ IsParseLine(call) /\ call.instate = "parsing" /\ call.cls = "end"
    /\ state = "complete"

\* C2: in state parsing a parse_line on an information line never raises;
\* what the body throws is stored in the sticky slot; the line is added to
\* the checksum; once an error is stored, information lines are only
\* summed and the body is left alone; and when an END line is accepted
\* with an error stored, the error raised is that stored error.
C2_StickyError ==
    [][ /\ (IsParseLine(call') /\ state = "parsing" /\ call'.cls = "info") =>
            /\ call'.raised = NoError
            /\ current_pdu'.checksum = (current_pdu.checksum + fed' + 65536 - fed) % 65536
            /\ call'.thrown # NoError =>
                   /\ current_error = NoError
                   /\ current_error' = call'.thrown
            /\ current_error # NoError =>
                   /\ call'.thrown = NoError
                   /\ current_error' = current_error
                   /\ current_pdu' = [current_pdu EXCEPT !.checksum = current_pdu'.checksum]
        /\ (IsParseLine(call') /\ state = "parsing" /\ state' = "complete"
            /\ current_error # NoError) => call'.raised = current_error
      ]_vars

\* C2: an accepted END line raised the error stored two lines earlier, with
\* another information line summed in between.
C2_Witness ==
    /\ IsParseLine(call) /\ call.instate = "parsing" /\ call.cls = "end"
    /\ state = "complete" /\ current_error # NoError
    /\ call.raised = current_error
    /\ nlines = 3

\* C3: when the parse_line that processes an END line raises, the framer
\* is not complete afterwards, and a complete framer has no stored error.
C3_CompleteMeansNoError ==
    /\ (IsParseLine(call) /\ call.instate = "parsing" /\ call.cls = "end"
        /\ call.raised # NoError) => state # "complete"
    /\ state = "complete" => current_error = NoError

\* C4: a VERIFY or ENV body returned by extract_pdu() has at least one To
\* address and envelope_data set.
C4_ExtractedEnvelope ==
    (/\ call.op = "extract_pdu" /\ call.returned # <<>>
     /\ call.returned[1].type \in {"verify", "env"})
        => /\ Len(call.returned[1].to_address) >= 1
           /\ call.returned[1].envelope_data

\* C5: the value compared with the sender's checksum at an END line in
\* state parsing is the sum of the low seven bits, modulo 2^16, of the
\* accepted opening line, the information lines delivered since, and this
\* END line up to and including its '*'.
C5_ComparedSum ==
    (/\ IsParseLine(call) /\ call.instate = "parsing" /\ call.cls = "end"
     /\ call.compared >= 0)
        => call.compared = call.expected

\* The reading of a sender's checksum text that the protocol gives: four
\* hex digits of either case, most significant first.
IsHexDigit(c) == c \in (48..57) \cup (65..70) \cup (97..102)
HexDigit(c) == IF c <= 57 THEN c - 48 ELSE IF c <= 70 THEN c - 55 ELSE c - 87
IsHexText(t) == \A i \in 1..4 : IsHexDigit(t[i])
HexText(t) == 4096 * HexDigit(t[1]) + 256 * HexDigit(t[2]) + 16 * HexDigit(t[3])
              + HexDigit(t[4])
IsWildcardText(t) == \A i \in 1..4 : t[i] \in {90, 122}

\* C6: for the four characters after '*': "ZZZZ" in any letter case
\* succeeds whatever the running sum; four hex digits equal to the running
\* sum succeed; four hex digits that differ raise 403; anything else
\* raises 301.
C6_CompareOutcome ==
    cmp_result # -1 =>
        cmp_result =
            IF IsWildcardText(cmp_text) THEN 0
            ELSE IF ~IsHexText(cmp_text) THEN PDU_Syntax_Error
            ELSE IF HexText(cmp_text) = cmp_checksum THEN 0
            ELSE Checksum_Error

\* C6: mixed-case "ZZZZ" was compared with a running sum that is not zero
\* and the comparison returned.
C6_Witness ==
    /\ cmp_result = 0 /\ cmp_text = <<90, 122, 90, 122>> /\ cmp_checksum = 4660

\* C7: a PduChecksum that started at 0 holds the sum of the low seven bits
\* of every byte fed to it, modulo 2^16.
C7_ChecksumIsLowSevenSum == sum = total % 65536

\* C7: bytes with the top bit set were fed and the sum has wrapped.
C7_Witness == added >= 2 /\ total >= 65536 /\ sum # total

\* C8: every error a parse_line call raises is a typed MEP2 error with a
\* numeric status code.
C8_TypedErrors ==
    (IsParseLine(call) /\ call.raised # NoError)
        => call.raised.kind = "Mep2Error" /\ call.raised.code > 0

\* C9: extract_pdu() succeeds exactly when the framer is complete; it then
\* returns the body and leaves the framer idle without a current type or
\* a stored error; in idle or parsing it raises and changes nothing.
C9_ExtractPdu ==
    [][ call'.op = "extract_pdu" =>
            /\ (call'.raised = NoError) <=> (state = "complete")
            /\ state = "complete" =>
                   /\ call'.returned = <<current_pdu>>
                   /\ state' = "idle"
                   /\ current_type' = "none"
                   /\ current_error' = NoError
            /\ state # "complete" =>
                   /\ call'.raised # NoError
                   /\ call'.returned = <<>>
                   /\ UNCHANGED <<state, current_type, current_error, current_pdu>>
      ]_vars

\* C9: an extract_pdu() returned a multi-line body and left the framer idle.
C9_Witness ==
    /\ call.op = "extract_pdu" /\ call.instate = "complete"
    /\ call.returned # <<>> /\ ~is_single_line(call.returned[1].type)
    /\ state = "idle"

\* C10: a parse_line on a complete framer raises a syntax error and leaves
\* the state, the body with its checksum, and the current type as they
\* were.
C10_LineAfterComplete ==
    [][ (IsParseLine(call') /\ state = "complete") =>
            /\ call'.raised = PduSyntaxError
            /\ UNCHANGED <<state, current_type, current_error, current_pdu>>
      ]_vars

\* C10: a line was delivered to a complete framer.
C10_Witness ==
    /\ IsParseLine(call) /\ call.instate = "complete" /\ call.raised = PduSyntaxError
    /\ state = "complete"


\* ---------------------------------------------- reading a line by its shape

IsLetter(c) == (c >= 65 /\ c <= 90) \/ (c >= 97 /\ c <= 122)
LowerAll(s) == [i \in 1..Len(s) |-> IF s[i] >= 65 /\ s[i] <= 90 THEN s[i] + 32 ELSE s[i]]
IsBlank(s) == \A i \in 1..Len(s) : s[i] \in {32, 9}

\* The letters a string starts with, in lower case.
LeadingWord(s) ==
    LowerAll(SubSeq(s, 1, CHOOSE n \in 0..Len(s) :
                              /\ \A i \in 1..n : IsLetter(s[i])
                              /\ n < Len(s) => ~IsLetter(s[n + 1])))

\* The fifteen PDU names, and the six that are single-line.
PduNames == {Keyword[t] : t \in type_id}
SingleLineNames ==
    {Keyword[t] : t \in {"create", "send", "scan", "busy", "turn", "term"}}

\* An opening line the framing rules turn away.
MalformedOpening(line) ==
    \/ Len(line) < 5
    \/ line[1] # 47
    \/ Cardinality({i \in 1..Len(line) : line[i] = 42}) > 1
    \/ Cardinality({i \in 1..Len(line) : line[i] = 47}) > 1
    \/ ~\E i \in 1..Len(line) : line[i] = 13
    \/ LeadingWord(Tail(line)) \notin PduNames

\* C11: an opening line that is shorter than 5 bytes, does not start with
\* '/', holds more than one '*' or more than one '/', holds no CR, or whose
\* type word is not a PDU name, raises 301 and leaves the framer idle.
C11_MalformedOpening ==
    (IsParseLine(call) /\ call.instate = "idle" /\ MalformedOpening(cmp_text))
        => call.raised = PduSyntaxError /\ state = "idle"

\* C11: "/bogus\r\n", well framed but for its type word, was turned away
\* with 301 and the framer is idle.
C11_Witness ==
    /\ IsParseLine(call) /\ call.instate = "idle"
    /\ cmp_text = <<47, 98, 111, 103, 117, 115, 13, 10>>
    /\ call.raised = PduSyntaxError /\ state = "idle"

\* The line cut at its first CR and right-trimmed of spaces and tabs has a
\* '*' exactly five bytes before its end.
StarFiveFromEnd(line) ==
    \E cr \in 1..Len(line) :
        /\ line[cr] = 13 /\ \A i \in 1..(cr - 1) : line[i] # 13
        /\ \E n \in 5..(cr - 1) :
               /\ IsBlank(SubSeq(line, n + 1, cr - 1))
               /\ line[n] \notin {32, 9}
               /\ line[n - 4] = 42

\* C12: a single-line PDU is accepted only with a '*' five bytes before the
\* end of its cut and trimmed opening line; a multi-line opening line with
\* a '*' anywhere raises 301; a single-line type never enters parsing and
\* a multi-line type never reaches complete from its opening line.
C12_ChecksumPlacement ==
    (IsParseLine(call) /\ call.instate = "idle") =>
        /\ (call.raised = NoError /\ LeadingWord(Tail(cmp_text)) \in SingleLineNames)
               => StarFiveFromEnd(cmp_text)
        /\ (/\ cmp_text # <<>>
            /\ LeadingWord(Tail(cmp_text)) \in PduNames \ SingleLineNames
            /\ \E i \in 1..Len(cmp_text) : cmp_text[i] = 42)
               => call.raised = PduSyntaxError
        /\ state = "parsing" => Keyword[current_type] \notin SingleLineNames
        /\ state = "complete" => Keyword[current_type] \in SingleLineNames

\* C12: "/create*ZZZZ \t\r\n" completed a CREATE: the '*' is five bytes
\* before the end once the blanks before the CR are trimmed.
C12_Witness ==
    /\ IsParseLine(call) /\ call.instate = "idle"
    /\ cmp_text = <<47, 99, 114, 101, 97, 116, 101, 42, 90, 90, 90, 90, 32, 9, 13, 10>>
    /\ call.raised = NoError /\ state = "complete" /\ current_type = "create"

\* The line, cut at its first CR and right-trimmed, reads "/END" in any
\* letter case, blanks, word in any letter case, blanks, '*' and four bytes.
ReadsEnd(line, word) ==
    \E cr \in 1..Len(line) :
        /\ line[cr] = 13 /\ \A i \in 1..(cr - 1) : line[i] # 13
        /\ \E n \in 9..(cr - 1) :
               /\ IsBlank(SubSeq(line, n + 1, cr - 1))
               /\ line[n] \notin {32, 9}
               /\ line[n - 4] = 42
               /\ LowerAll(SubSeq(line, 1, 4)) = <<47, 101, 110, 100>>
               /\ \E a \in 0..(n - 9) :
                      /\ IsBlank(SubSeq(line, 5, 4 + a))
                      /\ LowerAll(SubSeq(line, 5 + a, 4 + a + Len(word))) = word
                      /\ IsBlank(SubSeq(line, 5 + a + Len(word), n - 5))

\* An END line: "/END" in any letter case with no letter after it.
IsEndLine(line) ==
    /\ Len(line) >= 4
    /\ LowerAll(SubSeq(line, 1, 4)) = <<47, 101, 110, 100>>
    /\ Len(line) > 4 => ~IsLetter(line[5])

\* What stands after "/END" and the blanks that follow it, and what stands
\* after the type word there and the blanks that follow that.
AfterEnd(line) ==
    SubSeq(line, CHOOSE k \in 5..(Len(line) + 1) :
                     /\ IsBlank(SubSeq(line, 5, k - 1))
                     /\ k <= Len(line) => line[k] \notin {32, 9},
           Len(line))
AfterEndType(line) ==
    SubSeq(AfterEnd(line),
           CHOOSE k \in (Len(LeadingWord(AfterEnd(line))) + 1)..(Len(AfterEnd(line)) + 1) :
               /\ IsBlank(SubSeq(AfterEnd(line), Len(LeadingWord(AfterEnd(line))) + 1, k - 1))
               /\ k <= Len(AfterEnd(line)) => AfterEnd(line)[k] \notin {32, 9},
           Len(AfterEnd(line)))

\* An END line that names another type than word, names no type, or
\* carries data between the type and the '*'.
WrongEnd(line, word) ==
    /\ IsEndLine(line)
    /\ \/ LeadingWord(AfterEnd(line)) \in PduNames \ {word}
       \/ LeadingWord(AfterEnd(line)) = <<>>
       \/ /\ LeadingWord(AfterEnd(line)) = word
          /\ AfterEndType(line) # <<>>
          /\ AfterEndType(line)[1] \notin {42, 13}

\* C13: in state parsing a line starting with '/' completes the PDU only
\* if it reads "/END", the type of the body, and blanks up to the '*'; an
\* END line that names another type, names no type, or carries data after
\* the type raises 301 and the framer stays in state parsing.
C13_EndLine ==
    (IsParseLine(call) /\ call.instate = "parsing" /\ cmp_text # <<>> /\ cmp_text[1] = 47) =>
        /\ state = "complete" => ReadsEnd(cmp_text, Keyword[current_pdu.type])
        /\ WrongEnd(cmp_text, Keyword[current_pdu.type])
               => call.raised = PduSyntaxError /\ state = "parsing"


\* The field tags a VERIFY body turns away, in lower case: from:, date:,
\* source-date:, subject:, message-id:, source-message-id:, handling: and u-.
NonAddressTags ==
    {<<102, 114, 111, 109, 58>>,
     <<100, 97, 116, 101, 58>>,
     <<115, 111, 117, 114, 99, 101, 45, 100, 97, 116, 101, 58>>,
     <<115, 117, 98, 106, 101, 99, 116, 58>>,
     <<109, 101, 115, 115, 97, 103, 101, 45, 105, 100, 58>>,
     <<115, 111, 117, 114, 99, 101, 45, 109, 101, 115, 115, 97, 103, 101, 45, 105, 100, 58>>,
     <<104, 97, 110, 100, 108, 105, 110, 103, 58>>,
     <<117, 45>>}

StartsWithTag(line) ==
    \E tag \in NonAddressTags :
        Len(line) >= Len(tag) /\ LowerAll(SubSeq(line, 1, Len(tag))) = tag

\* A line with one of those tags is delivered to a VERIFY body that has no
\* error stored.
NonAddressLineInVerify ==
    /\ IsParseLine(call') /\ state = "parsing" /\ current_pdu.type = "verify"
    /\ current_error = NoError
    /\ StartsWithTag(cmp_text)

AddressesUnchanged ==
    /\ current_pdu'.to_address = current_pdu.to_address
    /\ current_pdu'.cc_address = current_pdu.cc_address
    /\ current_pdu'.current_address = current_pdu.current_address
    /\ current_pdu'.address_parse_state = current_pdu.address_parse_state

DecodeAlphabet == {97, 37, 47, 13, 10, 48, 68, 165, 138}

\* The longest input drawn from DecodeAlphabet.
MaxDecodeLen == 4

ShortTexts == UNION {[1..n -> DecodeAlphabet] : n \in 0..MaxDecodeLen}

\* Inputs of the decoder's tests, and escapes of CR, of LF and with the top
\* bit set:
\*   "a%0D%0Ab"
\*   "%0D%0A"
\*   "a%0d%0ab"
\*   "a%0Db"
\*   "%0D"
\*   "a%0D%0Bb"
\*   "%\x8d\x8a"
\*   "%\xb4\xb1"
\*   "%41"
\*   "\x8d\n"
\*   "\r\x8a"
\*   "\xa5\r\n"
\*   "Tab fill\ttab"
\*   "Delete characterX\x7f"
\*   "This will be entirely deleted\x15Not this"
\*   "Strip top bits: \xc1\xd3\xc3\xc9\xc9"
\*   "Percent sign %25"
\*   "MCI Address: Gandalf%2F111-1111"
\*   "Invalid % code"
\*   "Invalid percent code %a"
\*   "Stray / in data"
\*   "Lost characters\x0b\x0c\x11\x12\x13"
\*   "%2"
\*   "%\r"
NamedTexts ==
    {<<97, 37, 48, 68, 37, 48, 65, 98>>,
     <<37, 48, 68, 37, 48, 65>>,
     <<97, 37, 48, 100, 37, 48, 97, 98>>,
     <<97, 37, 48, 68, 98>>,
     <<37, 48, 68>>,
     <<97, 37, 48, 68, 37, 48, 66, 98>>,
     <<37, 141, 138>>,
     <<37, 180, 177>>,
     <<37, 52, 49>>,
     <<141, 10>>,
     <<13, 138>>,
     <<165, 13, 10>>,
     <<84, 97, 98, 32, 102, 105, 108, 108, 9, 116, 97, 98>>,
     <<68, 101, 108, 101, 116, 101, 32, 99, 104, 97, 114, 97, 99, 116, 101, 114, 88, 127>>,
     <<84, 104, 105, 115, 32, 119, 105, 108, 108, 32, 98, 101, 32, 101, 110, 116, 105, 114, 101, 108, 121, 32, 100, 101, 108, 101, 116, 101, 100, 21, 78, 111, 116, 32, 116, 104, 105, 115>>,
     <<83, 116, 114, 105, 112, 32, 116, 111, 112, 32, 98, 105, 116, 115, 58, 32, 193, 211, 195, 201, 201>>,
     <<80, 101, 114, 99, 101, 110, 116, 32, 115, 105, 103, 110, 32, 37, 50, 53>>,
     <<77, 67, 73, 32, 65, 100, 100, 114, 101, 115, 115, 58, 32, 71, 97, 110, 100, 97, 108, 102, 37, 50, 70, 49, 49, 49, 45, 49, 49, 49, 49>>,
     <<73, 110, 118, 97, 108, 105, 100, 32, 37, 32, 99, 111, 100, 101>>,
     <<73, 110, 118, 97, 108, 105, 100, 32, 112, 101, 114, 99, 101, 110, 116, 32, 99, 111, 100, 101, 32, 37, 97>>,
     <<83, 116, 114, 97, 121, 32, 47, 32, 105, 110, 32, 100, 97, 116, 97>>,
     <<76, 111, 115, 116, 32, 99, 104, 97, 114, 97, 99, 116, 101, 114, 115, 11, 12, 17, 18, 19>>,
     <<37, 50>>,
     <<37, 13>>}

DecodeInputs == ShortTexts \cup NamedTexts

\* s with the top bit of every byte cleared.
Mask7(s) == [i \in 1..Len(s) |-> s[i] % 128]

DecodeInit ==
    /\ FramerInit /\ ChecksumIdle /\ CompareIdle /\ MciIdle /\ UnitIdle
    /\ \E text \in DecodeInputs :
           codec = [phase |-> "ready", text |-> text, enc |-> <<>>, pos |-> 0, run |-> 0,
                    out |-> <<>>, err |-> NoError, out7 |-> <<>>, err7 |-> NoError]

\* decode_string(text), and decode_string of text with its top bits cleared.
Decode ==
    LET Returned(r, r7) ==
            codec' = [codec EXCEPT !.phase = "done", !.out = r.val, !.err = r.err,
                                   !.out7 = r7.val, !.err7 = r7.err]
    IN
    /\ codec.phase = "ready"
    /\ Returned(decode_string(codec.text), decode_string(Mask7(codec.text)))
    /\ UNCHANGED <<framer_vars, checksum_vars, compare_vars, mci, unit_vars>>

DecodeNext == Decode

SpecDecode == DecodeInit /\ [][DecodeNext]_vars


\* C16: decode_string depends only on the low seven bits of each input
\* byte: an input and the same input with every top bit cleared give the
\* same output, or an error both.
C16_TopBitIgnored ==
    codec.phase = "done" =>
        /\ (codec.err = NoError) <=> (codec.err7 = NoError)
        /\ codec.out = codec.out7

\* C17: a percent escape that decodes to 0x0D and is followed by the escape
\* "%0A" gives the two bytes CR LF; one that is not followed by "%0A" gives
\* nothing.  Each case is an input and the output the claim gives for it:
\* "a%0D%0Ab" -> "a\r\nb", "%0D%0A" -> "\r\n", "a%0d%0ab" -> "a\r\nb",
\* "a%0Db" -> "ab", "%0D" -> "", "a%0D%0Bb" -> "ab".
EscapedCrCases ==
    {<< <<97, 37, 48, 68, 37, 48, 65, 98>>, <<97, 13, 10, 98>> >>,
     << <<37, 48, 68, 37, 48, 65>>, <<13, 10>> >>,
     << <<97, 37, 48, 100, 37, 48, 97, 98>>, <<97, 13, 10, 98>> >>,
     << <<97, 37, 48, 68, 98>>, <<97, 98>> >>,
     << <<37, 48, 68>>, <<>> >>,
     << <<97, 37, 48, 68, 37, 48, 66, 98>>, <<97, 98>> >>}

C17_EscapedCrLf ==
    \A c \in EscapedCrCases :
        (codec.phase = "done" /\ codec.text = c[1])
            => codec.err = NoError /\ codec.out = c[2]

\* An input the decoder can read to its end: bytes that are neither '%'
\* nor '/' once masked, and '%' followed by CR LF or by two hex digits.
RECURSIVE Decodable(_)
Decodable(s) ==
    \/ s = <<>>
    \/ /\ (s[1] % 128) \notin {37, 47}
       /\ Decodable(Tail(s))
    \/ /\ (s[1] % 128) = 37
       /\ Len(s) >= 3
       /\ \/ s[2] = 13 /\ s[3] = 10
          \/ IsHexDigit(s[2]) /\ IsHexDigit(s[3])
       /\ Decodable(SubSeq(s, 4, Len(s)))

CodecAlphabet == {97, 32, 126, 37, 47}

MaxCodecLen == 3

Fill(n, c) == [i \in 1..n |-> c]

LongTexts ==
    {Fill(SoftBreakEvery - 1, 97),
     Fill(SoftBreakEvery, 97),
     Fill(SoftBreakEvery + 1, 97),
     Fill(SoftBreakEvery - 1, 97) \o <<37, 98>>,
     Fill(SoftBreakEvery - 2, 97) \o <<47, 98>>,
     Fill(SoftBreakEvery - 3, 97) \o <<37, 47, 98>>,
     Fill(SoftBreakEvery, 32) \o Fill(SoftBreakEvery, 126) \o <<37>>}

CodecTexts == UNION {[1..n -> CodecAlphabet] : n \in 0..MaxCodecLen} \cup LongTexts

CodecInit ==
    /\ FramerInit /\ ChecksumIdle /\ CompareIdle /\ MciIdle /\ UnitIdle
    /\ \E text \in CodecTexts :
           codec = [phase |-> "encoding", text |-> text, enc |-> <<>>, pos |-> 0, run |-> 0,
                    out |-> <<>>, err |-> NoError, out7 |-> <<>>, err7 |-> NoError]

\* One pass of encode_string's loop.
EncodeStep ==
    LET Passed(r) == codec' = [codec EXCEPT !.enc = r.val, !.pos = r.i, !.run = r.run]
    IN
    /\ codec.phase = "encoding" /\ codec.pos < Len(codec.text)
    /\ Passed(encode_step(codec.text, codec.pos, codec.enc, codec.run))
    /\ UNCHANGED <<framer_vars, checksum_vars, compare_vars, mci, unit_vars>>

\* encode_string returns; its result is handed to decode_string.
EncodeReturn ==
    /\ codec.phase = "encoding" /\ codec.pos >= Len(codec.text)
    /\ codec' = [codec EXCEPT !.phase = "decoding", !.pos = 0]
    /\ UNCHANGED <<framer_vars, checksum_vars, compare_vars, mci, unit_vars>>

\* One pass of decode_string's loop; a throw ends the call.
DecodeStep ==
    LET Passed(r) ==
            codec' = IF r.err # NoError
                     THEN [codec EXCEPT !.phase = "decoded", !.err = r.err, !.out = <<>>]
                     ELSE [codec EXCEPT !.pos = r.i, !.out = r.val]
    IN
    /\ codec.phase = "decoding" /\ codec.pos < Len(codec.enc)
    /\ Passed(decode_step(codec.enc, codec.pos, codec.out))
    /\ UNCHANGED <<framer_vars, checksum_vars, compare_vars, mci, unit_vars>>

\* decode_string returns.
DecodeReturn ==
    /\ codec.phase = "decoding" /\ codec.pos >= Len(codec.enc)
    /\ codec' = [codec EXCEPT !.phase = "decoded"]
    /\ UNCHANGED <<framer_vars, checksum_vars, compare_vars, mci, unit_vars>>

CodecNext == EncodeStep \/ EncodeReturn \/ DecodeStep \/ DecodeReturn

SpecCodec == CodecInit /\ [][CodecNext]_vars

\* C15: decode_string(encode_string(s)) = s for every printable ASCII s,
\* '%' and '/' included, and for s long enough for the encoder to insert
\* "%\r\n" soft breaks.
C15_RoundTrip ==
    codec.phase = "decoded" => codec.err = NoError /\ codec.out = codec.text

\* C15: 200 spaces, 200 '~' and a '%' went through both: the encoding has
\* a soft break after each 200 characters and "%25" at its end.
C15_Witness ==
    /\ codec.phase = "decoded"
    /\ codec.text = Fill(SoftBreakEvery, 32) \o Fill(SoftBreakEvery, 126) \o <<37>>
    /\ codec.enc = Fill(SoftBreakEvery, 32) \o SoftBreak \o Fill(SoftBreakEvery, 126)
                       \o SoftBreak \o <<37, 50, 53>>
    /\ codec.out = codec.text

\* --------------------------------------------- is_mciid / canonicalize_mciid

\* One id handed to is_mciid and then to canonicalize_mciid.  The sources
\* define is_mciid twice, with a regular expression (address.cpp) and with a
\* loop (string_utils.cpp); which of the two a build links is not determined
\* by the sources, so the call may run either.
MciImpls == {"regex", "loop"}

MaxIdLen == 8

IdAlphabet == {48, 49, 45}

ShortIds == UNION {[1..n -> IdAlphabet] : n \in 0..MaxIdLen}

\* Ids of ten to fourteen bytes: three groups and what stands between them.
LongIds ==
    {a \o s \o b \o t \o c :
        a \in {<<48, 48, 48>>, <<49, 49, 49>>, <<48, 48, 49>>, <<48, 45, 48>>},
        s \in {<<>>, <<45>>, <<48>>},
        b \in {<<49, 49, 49>>, <<48, 48, 48>>, <<49, 45, 49>>},
        t \in {<<>>, <<45>>, <<49>>},
        c \in {<<49, 49, 49, 49>>, <<48, 48, 48, 48>>, <<49, 49, 49>>,
               <<49, 49, 49, 45>>, <<49, 49, 49, 49, 49>>}}

\*   "NOT-REAL"
\*   "NOT-VAL-IDSE"
\*   "12345678"
\*   "123-4567"
NamedIds ==
    {<<78, 79, 84, 45, 82, 69, 65, 76>>,
     <<78, 79, 84, 45, 86, 65, 76, 45, 73, 68, 83, 69>>,
     <<49, 50, 51, 52, 53, 54, 55, 56>>,
     <<49, 50, 51, 45, 52, 53, 54, 55>>}

MciIds == ShortIds \cup LongIds \cup NamedIds

MciInit ==
    /\ FramerInit /\ ChecksumIdle /\ CompareIdle /\ CodecIdle /\ UnitIdle
    /\ \E id \in MciIds, impl \in MciImpls :
           mci = [phase |-> "ready", impl |-> impl, id |-> id, valid |-> FALSE,
                  canonical |-> <<>>, err |-> NoError]

\* The is_mciid the build linked.
linked_is_mciid(impl, line) ==
    IF impl = "regex" THEN is_mciid(line) ELSE is_mciid_loop(line)

\* is_mciid(id).
TestId ==
    /\ mci.phase = "ready"
    /\ mci' = [mci EXCEPT !.phase = "tested", !.valid = linked_is_mciid(mci.impl, mci.id)]
    /\ UNCHANGED <<framer_vars, checksum_vars, compare_vars, codec, unit_vars>>

\* canonicalize_mciid(id): std::invalid_argument for an id is_mciid rejects.
Canonicalize ==
    /\ mci.phase = "tested"
    /\ mci' = IF linked_is_mciid(mci.impl, mci.id)
              THEN [mci EXCEPT !.phase = "done", !.canonical = canonicalize_mciid(mci.id)]
              ELSE [mci EXCEPT !.phase = "done", !.err = InvalidArgument]
    /\ UNCHANGED <<framer_vars, checksum_vars, compare_vars, codec, unit_vars>>

MciNext == TestId \/ Canonicalize

SpecMci == MciInit /\ [][MciNext]_vars

\* The shape of an id: 'N' for a digit, '-' for a hyphen, 'x' for any other
\* byte.
ShapeOf(s) ==
    [i \in 1..Len(s) |-> IF s[i] >= 48 /\ s[i] <= 57 THEN "N"
                         ELSE IF s[i] = 45 THEN "-" ELSE "x"]

MciShapes ==
    {<<"N", "N", "N", "-", "N", "N", "N", "N">>,
     <<"N", "N", "N", "-", "N", "N", "N", "-", "N", "N", "N", "N">>,
     <<"N", "N", "N", "N", "N", "N", "N">>,
     <<"N", "N", "N", "N", "N", "N", "N", "N", "N", "N">>}

\* C19: is_mciid is true exactly for the shapes NNN-NNNN, NNN-NNN-NNNN,
\* seven digits and ten digits, and false for every other string, "111-111-"
\* and "12345678" among them.
C19_MciIdShapes ==
    mci.phase \in {"tested", "done"} => (mci.valid <=> ShapeOf(mci.id) \in MciShapes)

IsDigit(c) == c >= 48 /\ c <= 57

IsHyphen(c) == c = 45

DigitsOf(s) == SelectSeq(s, IsDigit)

HyphensOf(s) == Len(SelectSeq(s, IsHyphen))

\* "0001111111" -> "111-1111", "000-111-1111" -> "111-1111",
\* "1111111111" -> "111-111-1111", "0011111111" -> "001-111-1111",
\* "000-1111" -> "000-1111".
CanonicalCases ==
    {<< <<48, 48, 48, 49, 49, 49, 49, 49, 49, 49>>, <<49, 49, 49, 45, 49, 49, 49, 49>> >>,
     << <<48, 48, 48, 45, 49, 49, 49, 45, 49, 49, 49, 49>>, <<49, 49, 49, 45, 49, 49, 49, 49>> >>,
     << <<49, 49, 49, 49, 49, 49, 49, 49, 49, 49>>,
        <<49, 49, 49, 45, 49, 49, 49, 45, 49, 49, 49, 49>> >>,
     << <<48, 48, 49, 49, 49, 49, 49, 49, 49, 49>>,
        <<48, 48, 49, 45, 49, 49, 49, 45, 49, 49, 49, 49>> >>,
     << <<48, 48, 48, 45, 49, 49, 49, 49>>, <<48, 48, 48, 45, 49, 49, 49, 49>> >>}

\* C20: for every id is_mciid accepts, canonicalize_mciid returns eight
\* bytes with one hyphen or twelve bytes with two; a leading "000" or "000-"
\* is stripped from the ten-digit and the twelve-byte form only, every other
\* digit is kept, and the five named ids give the named results.
C20_CanonicalForm ==
    (mci.phase = "done" /\ mci.valid) =>
        /\ mci.err = NoError
        /\ \/ Len(mci.canonical) = 8 /\ HyphensOf(mci.canonical) = 1
           \/ Len(mci.canonical) = 12 /\ HyphensOf(mci.canonical) = 2
        /\ DigitsOf(mci.canonical) =
               IF Len(mci.id) >= 10 /\ SubSeq(mci.id, 1, 3) = <<48, 48, 48>>
               THEN Drop(DigitsOf(mci.id), 3)
               ELSE DigitsOf(mci.id)
        /\ \A c \in CanonicalCases : mci.id = c[1] => mci.canonical = c[2]

\* ------------------------------------------------ a RawAddress on its own

\* RawAddress::parse_first_line on a default-constructed address.  The line
\* is a name or id, up to two further parts behind '/' with or without
\* blanks around it, and recipient options.
\*   "Gandalf"
\*   "111-1111"
\*   "MCI ID: 1111111"
\*   ""
AddressNames ==
    {<<71, 97, 110, 100, 97, 108, 102>>, <<49, 49, 49, 45, 49, 49, 49, 49>>,
     <<77, 67, 73, 32, 73, 68, 58, 32, 49, 49, 49, 49, 49, 49, 49>>, <<>>}

\*   "Org: Maia"
\*   "Loc: Shire"
\*   "Maia"
\*   "222-2222"
\*   "2222222"
\*   "Org: 222-2222"
\*   "Loc:2222222222"
\*   "Org:  000-222-2222 "
\*   "Org:"
\*   ""
\*   "MCI ID: 222-2222"
AddressParts ==
    {<<79, 114, 103, 58, 32, 77, 97, 105, 97>>,
     <<76, 111, 99, 58, 32, 83, 104, 105, 114, 101>>, <<77, 97, 105, 97>>,
     <<50, 50, 50, 45, 50, 50, 50, 50>>, <<50, 50, 50, 50, 50, 50, 50>>,
     <<79, 114, 103, 58, 32, 50, 50, 50, 45, 50, 50, 50, 50>>,
     <<76, 111, 99, 58, 50, 50, 50, 50, 50, 50, 50, 50, 50, 50>>,
     <<79, 114, 103, 58, 32, 32, 48, 48, 48, 45, 50, 50, 50, 45, 50, 50, 50, 50, 32>>,
     <<79, 114, 103, 58>>, <<>>,
     <<77, 67, 73, 32, 73, 68, 58, 32, 50, 50, 50, 45, 50, 50, 50, 50>>}

\*   ""
\*   " (BOARD)"
\*   " (CRAP)"
AddressOptionTexts ==
    {<<>>, <<32, 40, 66, 79, 65, 82, 68, 41>>, <<32, 40, 67, 82, 65, 80, 41>>}

\*   "/"
\*   " / "
AddressSlashes ==
    {<<47>>, <<32, 47, 32>>}

AddressLines ==
    {n \o o : n \in AddressNames, o \in AddressOptionTexts}
    \cup {n \o s \o p \o o : n \in AddressNames, s \in AddressSlashes,
                             p \in AddressParts, o \in AddressOptionTexts}
    \cup {n \o <<47>> \o p \o s \o q \o o :
              n \in AddressNames, p \in AddressParts, s \in AddressSlashes,
              q \in AddressParts, o \in AddressOptionTexts}
    \cup {<<47, 47, 47>>}

FirstLineInit ==
    /\ FramerInit /\ ChecksumIdle /\ CompareIdle /\ CodecIdle /\ MciIdle /\ ZonedIdle /\ CursorIdle
    /\ ArrivedIdle
    /\ \E line \in AddressLines :
           raw = [phase |-> "fresh", addr |-> NewAddress, line |-> line, field |-> <<>>,
                  before |-> NewAddress, err |-> NoError, calls |-> 0]

\* a.parse_first_line(line)
ParseFirstLine ==
    LET Returned(r) ==
            raw' = [raw EXCEPT !.phase = "named", !.addr = r.addr, !.err = r.err,
                               !.calls = 1]
    IN
    /\ raw.phase = "fresh"
    /\ Returned(address_parse_first_line(raw.addr, raw.line))
    /\ UNCHANGED <<framer_vars, checksum_vars, compare_vars, pure_vars, zoned, cursor, arrived>>

FirstLineNext == ParseFirstLine

SpecFirstLine == FirstLineInit /\ [][FirstLineNext]_vars

\* C21: after a parse_first_line that returned, none of organization,
\* location, unresolved_org_loc_1 and unresolved_org_loc_2 has the shape of
\* an MCI id, whether the value came bare or behind "Org:" or "Loc:".
C21_OrgLocNeverMciId ==
    (raw.phase = "named" /\ raw.err = NoError) =>
        /\ ShapeOf(raw.addr.organization) \notin MciShapes
        /\ ShapeOf(raw.addr.location) \notin MciShapes
        /\ ShapeOf(raw.addr.unresolved_org_loc_1) \notin MciShapes
        /\ ShapeOf(raw.addr.unresolved_org_loc_2) \notin MciShapes

\* RawAddress::parse_field, called up to MaxFieldCalls times on the address
\* that parse_first_line("Gandalf") leaves.  The fields are tags as the
\* envelope parser passes them (the text up to and including the first ':')
\* and the colon-less ones of the tests.
MaxFieldCalls == 4

\*   "EMS:"
\*   "ems:"
\*   "eMs:"
\*   "MBX:"
\*   "mBx:"
\*   "To:"
\*   "EMS"
\*   "MB:"
\*   "EMSX:"
\*   ""
FieldNames ==
    {<<69, 77, 83, 58>>, <<101, 109, 115, 58>>, <<101, 77, 115, 58>>, <<77, 66, 88, 58>>,
     <<109, 66, 120, 58>>, <<84, 111, 58>>, <<69, 77, 83>>, <<77, 66, 58>>,
     <<69, 77, 83, 88, 58>>, <<>>}

\* Informations of 0, 1, 105, 200 and 306 bytes: 200 + 105 is MaxMbxLen.
FieldInformations ==
    {<<>>, <<97>>, Fill(MaxMbxLen - 200, 98), Fill(200, 99), Fill(MaxMbxLen + 1, 100)}

FieldInit ==
    /\ FramerInit /\ ChecksumIdle /\ CompareIdle /\ CodecIdle /\ MciIdle /\ ZonedIdle /\ CursorIdle
    /\ ArrivedIdle
    /\ raw = [phase |-> "named",
              addr |-> address_parse_first_line(NewAddress,
                                                <<71, 97, 110, 100, 97, 108, 102>>).addr,
              line |-> <<>>, field |-> <<>>, before |-> NewAddress, err |-> NoError,
              calls |-> 0]

\* a.parse_field(field, information); the address is kept as the call left
\* it, also when it threw.
ParseField(field, information) ==
    LET Returned(r) ==
            raw' = [raw EXCEPT !.phase = "fielded", !.before = raw.addr, !.addr = r.addr,
                               !.field = field, !.line = information, !.err = r.err,
                               !.calls = raw.calls + 1]
    IN
    /\ raw.phase \in {"named", "fielded"}
    /\ raw.calls < MaxFieldCalls
    /\ Returned(address_parse_field(raw.addr, field, information))
    /\ UNCHANGED <<framer_vars, checksum_vars, compare_vars, pure_vars, zoned, cursor, arrived>>

FieldNext == \E field \in FieldNames, information \in FieldInformations :
                 ParseField(field, information)

SpecField == FieldInit /\ [][FieldNext]_vars

EmsTag == <<101, 109, 115, 58>>
MbxTag == <<109, 98, 120, 58>>

C23_AddressInvariant ==
    raw.phase = "fielded" =>
        /\ raw.addr.mbx # <<>> => raw.addr.ems # <<>>
        /\ raw.before.ems # <<>> => raw.addr.ems = raw.before.ems
        /\ SumLen(raw.addr.mbx) <= 305
        /\ raw.err # NoError => raw.addr.mbx = raw.before.mbx

\* ------------------------------------------- the queues of an ENV body

\* A framer inside an ENV body takes up to MaxQueueLines envelope lines,
\* each one accepted: source-message-id lines, U- lines and a subject.
MaxQueueLines == 6

\* "Source-Message-ID: A1\r\n"
Q_smi == <<83, 111, 117, 114, 99, 101, 45, 77, 101, 115, 115, 97, 103, 101, 45, 73, 68, 58, 32, 65, 49, 13, 10>>
\* "source-message-id: a%25" twenty tabs "z\r\n"  (decoded: "a%", blanks up
\* to column 80, "z")
Q_smi_long == <<115, 111, 117, 114, 99, 101, 45, 109, 101, 115, 115, 97, 103, 101, 45, 105, 100, 58, 32, 97, 37, 50, 53, 9, 9, 9, 9, 9, 9, 9, 9, 9, 9, 9, 9, 9, 9, 9, 9, 9, 9, 9, 9, 122, 13, 10>>
\* "U-Custom: v1\r\n"
Q_u == <<85, 45, 67, 117, 115, 116, 111, 109, 58, 32, 118, 49, 13, 10>>
\* "U-AVeryLongHeaderNameOver20: b" twenty tabs "z\r\n"  (decoded: "b", blanks
\* up to column 80, "z")
Q_u_long == <<85, 45, 65, 86, 101, 114, 121, 76, 111, 110, 103, 72, 101, 97, 100, 101, 114, 78, 97, 109, 101, 79, 118, 101, 114, 50, 48, 58, 32, 98, 9, 9, 9, 9, 9, 9, 9, 9, 9, 9, 9, 9, 9, 9, 9, 9, 9, 9, 9, 9, 122, 13, 10>>
\* "Subject: hi\r\n"
Q_subject == <<83, 117, 98, 106, 101, 99, 116, 58, 32, 104, 105, 13, 10>>

QueueLines == {Q_smi, Q_smi_long, Q_u, Q_u_long, Q_subject}

\* The framer after the lines of `opening`, nothing delivered since.
InsideBody(opening) ==
    LET Given(f) ==
            /\ state = f.state
            /\ current_type = f.type
            /\ current_error = f.error
            /\ current_pdu = f.pdu
    IN
    /\ Given(After(FreshFramer, opening))
    /\ fed = Sum7All(opening) % 65536
    /\ nlines = Len(opening) - 1
    /\ call = NoCall("init")
    /\ ChecksumIdle /\ CompareIdle /\ PureIdle

QueueInit == InsideBody(<<L_env>>)

\* parser.parse_line(line), the line noted in arrival order.
DeliverInBody(line, most) ==
    /\ Len(arrived) < most
    /\ ParseLineStep(line, most)
    /\ arrived' = Append(arrived, line)
    /\ UNCHANGED <<checksum_vars, compare_vars, pure_vars, raw, zoned, cursor>>

QueueNext == \E line \in QueueLines : DeliverInBody(line, MaxQueueLines)

SpecQueue == QueueInit /\ [][QueueNext]_vars

IsSmiLine(line) == line \in {Q_smi, Q_smi_long}
IsULine(line) == line \in {Q_u, Q_u_long}

\* What a queue line is to leave in its queue: the first 78 bytes of the
\* decoded value, for a U- line behind the first 20 bytes of its tag.
QueueEntry(line) ==
    IF line = Q_smi THEN <<65, 49>>
    ELSE IF line = Q_smi_long THEN <<97, 37>> \o Fill(76, 32)
    ELSE IF line = Q_u THEN << <<85, 45, 67, 117, 115, 116, 111, 109>>, <<118, 49>> >>
    ELSE << <<85, 45, 65, 86, 101, 114, 121, 76, 111, 110, 103, 72, 101, 97, 100, 101, 114,
              78, 97, 109>>,
            <<98>> \o Fill(77, 32) >>

\* The last five entries of the lines of one kind, in arrival order.
RecentFive(lines) ==
    LET n == Len(lines)
        from == IF n > 5 THEN n - 5 ELSE 0
    IN  [i \in 1..(n - from) |-> QueueEntry(lines[from + i])]

\* C24: after any sequence of accepted envelope lines, source_message_id
\* and u_fields hold at most five entries each, the most recent ones in
\* arrival order (a sixth evicts the oldest); a stored value is the first
\* 78 bytes of the decoded information and a U- name the first 20 bytes of
\* the tag without its ':'.
C24_RecentFive ==
    (arrived # <<>> /\ current_type = "env") =>
        /\ current_error = NoError
        /\ Len(current_pdu.source_message_id) <= 5
        /\ Len(current_pdu.u_fields) <= 5
        /\ current_pdu.source_message_id = RecentFive(SelectSeq(arrived, IsSmiLine))
        /\ current_pdu.u_fields = RecentFive(SelectSeq(arrived, IsULine))

\* C24: six source-message-id lines arrived, the long one first; it was
\* evicted and the five short ones are left.
C24_Witness ==
    /\ arrived = <<Q_smi_long, Q_smi, Q_smi, Q_smi, Q_smi, Q_smi>>
    /\ current_pdu.source_message_id = [i \in 1..5 |-> <<65, 49>>]

\* -------------------------------------------- the END line of an envelope

\* The lines delivered inside a VERIFY or ENV body: addresses, a second
\* sender, a continuation, a subject, a line without a colon, an empty line
\* and the two END lines.
\* "From: Sam\r\n"
H_from_sam == <<70, 114, 111, 109, 58, 32, 83, 97, 109, 13, 10>>
\* " EMS: INTERNET\r\n"
H_ems == <<32, 69, 77, 83, 58, 32, 73, 78, 84, 69, 82, 78, 69, 84, 13, 10>>
\* "Bogus\r\n"
H_bogus == <<66, 111, 103, 117, 115, 13, 10>>
FromLines == {L_from, H_from_sam}
EnvelopeLines ==
    {<<>>, L_to, L_cc, Q_subject, H_ems, H_bogus, L_end_verify, L_end_env} \cup FromLines
MaxEnvelopeLines == 4

EnvelopeInit == \E opening \in {L_verify, L_env} : InsideBody(<<opening>>)

EnvelopeNext == \E line \in EnvelopeLines : DeliverInBody(line, MaxEnvelopeLines)

SpecEnvelope == EnvelopeInit /\ [][EnvelopeNext]_vars

\* The END line that closes a body of type t with a wildcard checksum.
ValidEnd(t) == IF t = "verify" THEN L_end_verify ELSE L_end_env
\* parse_line is being called with this line.
Delivering(line) == arrived' = Append(arrived, line)

\* An envelope line: not the empty string, on which parse_line returns at
\* once, and not an END line that was refused and left the body open.
IsBodyLine(line) == line # <<>> /\ line[1] # 47
\* What finalization reports for the lines accepted before the END line.
FinalOutcome(lines) ==
    IF \A i \in 1..Len(lines) : ~IsBodyLine(lines[i]) THEN PduNoEnvelopeDataError
    ELSE IF \A i \in 1..Len(lines) : lines[i] # L_to THEN PduToRequiredError
    ELSE NoError

\* C25: at a valid END line of a VERIFY or ENV body with no sticky error,
\* the call raises 311 when no envelope line was accepted, otherwise 312
\* when no To: address was given (the pending address counted), otherwise
\* nothing and the PDU is complete; with no line at all it is 311, not 312.
C25_FinalizeOrder ==
    [][(/\ state = "parsing"
        /\ current_type \in {"verify", "env"}
        /\ current_error = NoError
        /\ Delivering(ValidEnd(current_type)))
       => /\ call'.raised = FinalOutcome(arrived)
          /\ FinalOutcome(arrived) = NoError =>
                 /\ state' = "complete"
                 /\ current_pdu'.address_parse_state = "idle"
                 /\ current_pdu'.to_address # <<>>]_vars

\* C25: the END line came first in a VERIFY body and 311 was raised.
C25_Witness ==
    /\ arrived = <<L_end_verify>>
    /\ current_pdu.type = "verify"
    /\ current_pdu.to_address = <<>>
    /\ call.raised = PduNoEnvelopeDataError

\* "Frodo" and "Sam", the names the two From: lines carry.
FromName(line) ==
    IF line = L_from THEN <<70, 114, 111, 100, 111>> ELSE <<83, 97, 109>>
FirstFrom(lines) ==
    lines[CHOOSE i \in 1..Len(lines) :
              /\ lines[i] \in FromLines
              /\ \A j \in 1..(i - 1) : lines[j] \notin FromLines]
\* A From: line was accepted: its address is pending or already in the slot.
FromAccepted ==
    \/ current_pdu.from_address # <<>>
    \/ /\ current_pdu.address_parse_state = "parsing_from"
       /\ current_pdu.current_address.name # <<>>
FromKept(pdu, lines) ==
    /\ Len(pdu.from_address) = 1
    /\ pdu.from_address[1].name = FromName(FirstFrom(lines))
\* The sticky 310 comes out of the call that delivers the END line.
SurfacedAtEnd ==
    (/\ state = "parsing" /\ current_type = "env"
     /\ current_error = PduEnvelopeDataError
     /\ Delivering(L_end_env))
    => /\ call'.raised = PduEnvelopeDataError
       /\ FromKept(current_pdu', arrived)

TableZones ==
    << <<(<<65, 72, 83>>), -10>>, <<(<<65, 72, 68>>), -9>>, <<(<<89, 83, 84>>), -9>>,
       <<(<<89, 68, 84>>), -8>>, <<(<<80, 83, 84>>), -8>>, <<(<<80, 68, 84>>), -7>>,
       <<(<<77, 83, 84>>), -7>>, <<(<<77, 68, 84>>), -6>>, <<(<<67, 83, 84>>), -6>>,
       <<(<<67, 68, 84>>), -5>>, <<(<<69, 83, 84>>), -5>>, <<(<<69, 68, 84>>), -4>>,
       <<(<<65, 83, 84>>), -4>>, <<(<<71, 77, 84>>), 0>>, <<(<<66, 83, 84>>), 1>>,
       <<(<<87, 69, 83>>), 1>>, <<(<<87, 69, 68>>), 2>>, <<(<<69, 77, 84>>), 2>>,
       <<(<<77, 84, 83>>), 3>>, <<(<<77, 84, 68>>), 4>>, <<(<<74, 83, 84>>), 9>>,
       <<(<<69, 65, 68>>), 10>> >>
\* AKT -9, HST -10, SNG +8: the codes the Mailroom list adds.
MailroomZones ==
    << <<(<<65, 75, 84>>), -9>>, <<(<<72, 83, 84>>), -10>>, <<(<<83, 78, 71>>), 8>> >>
\* Codes in neither list: "XXX", "gmt", "MSK", "UTC", "Z  ", "est"
OtherZones ==
    {<<88, 88, 88>>, <<103, 109, 116>>, <<77, 83, 75>>, <<85, 84, 67>>, <<90, 32, 32>>, <<101, 115, 116>>}
\* Local times, each with its minute of the day and the day before, the
\* day itself and the day after as <<year, month, day>>:
\* "Sun Aug 11, 2024 12:00 AM"
\* "Mon Jan 01, 2024 12:30 AM"
\* "Sun Dec 31, 2023 11:30 PM"
\* "Thu Feb 29, 2024 08:15 PM"
\* "Sun Aug 11, 2024 12:45 PM"
Stamps ==
    << [text |-> <<83, 117, 110, 32, 65, 117, 103, 32, 49, 49, 44, 32, 50, 48, 50, 52, 32, 49, 50, 58, 48, 48, 32, 65, 77>>,
        minute |-> 0, before |-> <<2024, 8, 10>>, day |-> <<2024, 8, 11>>, after |-> <<2024, 8, 12>>],
       [text |-> <<77, 111, 110, 32, 74, 97, 110, 32, 48, 49, 44, 32, 50, 48, 50, 52, 32, 49, 50, 58, 51, 48, 32, 65, 77>>,
        minute |-> 30, before |-> <<2023, 12, 31>>, day |-> <<2024, 1, 1>>, after |-> <<2024, 1, 2>>],
       [text |-> <<83, 117, 110, 32, 68, 101, 99, 32, 51, 49, 44, 32, 50, 48, 50, 51, 32, 49, 49, 58, 51, 48, 32, 80, 77>>,
        minute |-> 1410, before |-> <<2023, 12, 30>>, day |-> <<2023, 12, 31>>, after |-> <<2024, 1, 1>>],
       [text |-> <<84, 104, 117, 32, 70, 101, 98, 32, 50, 57, 44, 32, 50, 48, 50, 52, 32, 48, 56, 58, 49, 53, 32, 80, 77>>,
        minute |-> 1215, before |-> <<2024, 2, 28>>, day |-> <<2024, 2, 29>>, after |-> <<2024, 3, 1>>],
       [text |-> <<83, 117, 110, 32, 65, 117, 103, 32, 49, 49, 44, 32, 50, 48, 50, 52, 32, 49, 50, 58, 52, 53, 32, 80, 77>>,
        minute |-> 765, before |-> <<2024, 8, 10>>, day |-> <<2024, 8, 11>>, after |-> <<2024, 8, 12>>] >>
\* Timestamps Date::parse refuses whatever the zone:
\* ""
\* "WWWWWWWWWWWWWWWWWWWWWWWWWWWWW"
\* "Sun August 11, 2024 12:00 AM "
\* "Su  Aug 11, 2024 12:00 AM GMT"
\* "Sun Mon 11, 2024 12:00 AM GMT"
\* "Sun Aug 33, 2024 12:00 AM GMT"
\* "Sun Aug 11, 2024 12:00 XD GMT"
\* "Sun Aug 11, 2024 13:00 AM GMT"
\* "Sun Aug 11, 2024 12:60 AM GMT"
BadStamps ==
    {<<>>,
     <<87, 87, 87, 87, 87, 87, 87, 87, 87, 87, 87, 87, 87, 87, 87, 87, 87, 87, 87, 87, 87, 87, 87, 87, 87, 87, 87, 87, 87>>,
     <<83, 117, 110, 32, 65, 117, 103, 117, 115, 116, 32, 49, 49, 44, 32, 50, 48, 50, 52, 32, 49, 50, 58, 48, 48, 32, 65, 77, 32>>,
     <<83, 117, 32, 32, 65, 117, 103, 32, 49, 49, 44, 32, 50, 48, 50, 52, 32, 49, 50, 58, 48, 48, 32, 65, 77, 32, 71, 77, 84>>,
     <<83, 117, 110, 32, 77, 111, 110, 32, 49, 49, 44, 32, 50, 48, 50, 52, 32, 49, 50, 58, 48, 48, 32, 65, 77, 32, 71, 77, 84>>,
     <<83, 117, 110, 32, 65, 117, 103, 32, 51, 51, 44, 32, 50, 48, 50, 52, 32, 49, 50, 58, 48, 48, 32, 65, 77, 32, 71, 77, 84>>,
     <<83, 117, 110, 32, 65, 117, 103, 32, 49, 49, 44, 32, 50, 48, 50, 52, 32, 49, 50, 58, 48, 48, 32, 88, 68, 32, 71, 77, 84>>,
     <<83, 117, 110, 32, 65, 117, 103, 32, 49, 49, 44, 32, 50, 48, 50, 52, 32, 49, 51, 58, 48, 48, 32, 65, 77, 32, 71, 77, 84>>,
     <<83, 117, 110, 32, 65, 117, 103, 32, 49, 49, 44, 32, 50, 48, 50, 52, 32, 49, 50, 58, 54, 48, 32, 65, 77, 32, 71, 77, 84>>}

ZoneCodes(table) == {table[i][1] : i \in 1..Len(table)}
\* A stamp, a space and a code.
Stamped(i, zone) == Stamps[i].text \o <<32>> \o zone
DateLines ==
    {Stamped(i, zone) : i \in 1..Len(Stamps),
                        zone \in ZoneCodes(TableZones) \cup ZoneCodes(MailroomZones)
                                 \cup OtherZones}
    \cup BadStamps

DateInit ==
    /\ FramerInit /\ ChecksumIdle /\ CompareIdle /\ CodecIdle /\ MciIdle
    /\ RawIdle /\ CursorIdle /\ ArrivedIdle
    /\ \E line \in DateLines :
           zoned = [phase |-> "given", line |-> line, err |-> NoError, date |-> <<>>]

\* Date d; d.parse(line).
ParseDate ==
    LET Returned(r) ==
            zoned' = [zoned EXCEPT !.phase = "parsed", !.err = r.err, !.date = r.date]
    IN  /\ zoned.phase = "given"
        /\ Returned(Date_parse(zoned.line))
        /\ UNCHANGED <<framer_vars, checksum_vars, compare_vars, codec, mci, raw, cursor, arrived>>

DateNext == ParseDate

SpecDate == DateInit /\ [][DateNext]_vars

\* The GMT time of stamp i in a zone `offset` hours east of Greenwich, from
\* the stamp's own three days.
GmtOfStamp(i, offset) ==
    LET t == Stamps[i].minute - offset * 60
        on == IF t < 0 THEN Stamps[i].before
              ELSE IF t >= 1440 THEN Stamps[i].after ELSE Stamps[i].day
        m == IF t < 0 THEN t + 1440 ELSE IF t >= 1440 THEN t - 1440 ELSE t
    IN  [year |-> on[1], month |-> on[2], day |-> on[3],
         hour |-> m \div 60, minute |-> m % 60]

\* A parsed timestamp of the stamps is accepted exactly with a code of the
\* table, refused with invalid-argument otherwise, and an accepted one has
\* the GMT time the table's offset gives.
ZonesOf(table) ==
    \A i \in 1..Len(Stamps) :
        \A zone \in ZoneCodes(TableZones) \cup ZoneCodes(MailroomZones) \cup OtherZones :
            (zoned.phase = "parsed" /\ zoned.line = Stamped(i, zone)) =>
                IF zone \in ZoneCodes(table)
                THEN /\ zoned.err = NoError
                     /\ zoned.date.orig_zone = zone
                     /\ \E k \in 1..Len(table) :
                            /\ table[k][1] = zone
                            /\ zoned.date.gmt = GmtOfStamp(i, table[k][2])
                ELSE /\ zoned.err = InvalidArgument
                     /\ zoned.date = <<>>

\* C27 as stated: Date.parse accepts a 29-byte timestamp only with one of
\* the 22 codes of the table and refuses every other code with
\* invalid-argument; the GMT time of an accepted one is the local time
\* minus the table's offset, MST being UTC-7, the date rolling over.
C27_TableZonesOnly == ZonesOf(TableZones)

\* C27: Date.parse accepts a 29-byte timestamp only with one of the 22
\* codes of the table or with AKT, HST or SNG, and refuses every other code
\* with invalid-argument; the GMT time of an accepted one is the local time
\* minus the code's offset (AKT -9, HST -10, SNG +8, MST -7), at minute
\* resolution, the date rolling over.
C27_Zones == ZonesOf(TableZones \o MailroomZones)

\* C27: "Mon Jan 01, 2024 12:30 AM MST" was parsed; it is 07:30 GMT.  And
\* the same local time in JST is the day before, 15:30 GMT.
C27_Witness ==
    /\ zoned.phase = "parsed"
    /\ zoned.err = NoError
    /\ \/ /\ zoned.line = Stamped(2, <<77, 83, 84>>)
          /\ zoned.date.gmt = [year |-> 2024, month |-> 1, day |-> 1,
                               hour |-> 7, minute |-> 30]
       \/ /\ zoned.line = Stamped(2, <<74, 83, 84>>)
          /\ zoned.date.gmt = [year |-> 2023, month |-> 12, day |-> 31,
                               hour |-> 15, minute |-> 30]

\* -------------------------------------------- options on the opening line

O_postal == <<80, 79, 83, 84, 65, 76>>
O_onite == <<79, 78, 73, 84, 69>>
O_ascii == <<65, 83, 67, 73, 73>>
O_priority == <<80, 82, 73, 79, 82, 73, 84, 89>>
\* "FOLDER=(DESK)"
O_folder == <<70, 79, 76, 68, 69, 82, 61, 40, 68, 69, 83, 75, 41>>
O_bogus == <<66, 79, 71, 85, 83>>
OpeningOptions == {O_postal, O_onite, O_ascii, O_priority, O_folder, O_bogus}

\* "/<type>[ <options>]*ZZZZ\r\n" for a single-line type and
\* "/<type>[ <options>]\r\n" for a multi-line one.
OpeningLine(t, options) ==
    <<47>> \o Keyword[t]
    \o (IF options = <<>> THEN <<>> ELSE <<32>> \o options)
    \o (IF is_single_line(t) THEN <<42, 90, 90, 90, 90>> ELSE <<>>)
    \o <<13, 10>>
OptionLines == {OpeningLine(t, o) : t \in type_id, o \in OpeningOptions \cup {<<>>}}
MaxOpeningLines == 1

OpeningInit == FramerInit /\ ChecksumIdle /\ CompareIdle /\ PureIdle

OpeningNext == \E line \in OptionLines : DeliverInBody(line, MaxOpeningLines)

SpecOpening == OpeningInit /\ [][OpeningNext]_vars

\* The option strings each type takes.
TakenOptions ==
    ({"verify", "env"} \X {O_postal, O_onite})
    \cup ({"text"} \X {O_ascii})
    \cup ({"scan", "turn"} \X {O_priority, O_folder})
\* The types that are built with the option parser of Pdu.
PlainTypes == {"busy", "create", "term", "send", "comment"}

\* C28 as stated: an opening line with a non-empty option string is
\* accepted only for a type whose has-options predicate is true; for a type
\* whose predicate is false it is rejected.
C28_OptionsByPredicate ==
    [][\A t \in type_id : \A o \in OpeningOptions :
           (state = "idle" /\ Delivering(OpeningLine(t, o)) /\ ~has_options(t))
           => call'.raised # NoError]_vars

\* C28: an opening line with a non-empty option string is accepted only
\* for VERIFY and ENV (POSTAL, ONITE), TEXT (a content type), SCAN and TURN
\* (query options); for BUSY, CREATE, TERM, SEND and COMMENT it is rejected
\* with 301, and for the other types the opening line is rejected anyway.
C28_OptionsByBody ==
    [][\A t \in type_id : \A o \in OpeningOptions :
           (state = "idle" /\ Delivering(OpeningLine(t, o)))
           => /\ call'.raised = NoError <=> <<t, o>> \in TakenOptions
              /\ call'.raised = NoError =>
                     /\ state' = (IF is_single_line(t) THEN "complete" ELSE "parsing")
                     /\ current_pdu'.type = t
              /\ t \in PlainTypes => call'.raised = PduSyntaxError
              /\ t \notin SupportedTypes => call'.raised = PduSyntaxError]_vars

\* C28: "/env POSTAL\r\n" opened an ENV body with postal priority.
C28_Witness ==
    /\ arrived = <<OpeningLine("env", O_postal)>>
    /\ call.raised = NoError
    /\ state = "parsing"
    /\ current_pdu.type = "env"
    /\ current_pdu.priority = "postal"

\* ------------------------------------------------ TextPdu::parse_options

\* The 14 content-type names: ASCII PRINTABLE ENV BINARY G3FAX TLX VOICE TIF0 TIF1 TTX VIDEOTEX ENCRYPTED SFD RACAL
ContentNames ==
    << <<65, 83, 67, 73, 73>>,
       <<80, 82, 73, 78, 84, 65, 66, 76, 69>>,
       <<69, 78, 86>>,
       <<66, 73, 78, 65, 82, 89>>,
       <<71, 51, 70, 65, 88>>,
       <<84, 76, 88>>,
       <<86, 79, 73, 67, 69>>,
       <<84, 73, 70, 48>>,
       <<84, 73, 70, 49>>,
       <<84, 84, 88>>,
       <<86, 73, 68, 69, 79, 84, 69, 88>>,
       <<69, 78, 67, 82, 89, 80, 84, 69, 68>>,
       <<83, 70, 68>>,
       <<82, 65, 67, 65, 76>> >>
\* Keywords that are no content type: "BOGUS", "ASC", "TIF2", "FAX", "TEXT", "E"
OtherKeywords ==
    {<<66, 79, 71, 85, 83>>, <<65, 83, 67>>, <<84, 73, 70, 50>>, <<70, 65, 88>>, <<84, 69, 88, 84>>, <<69>>}
\* ":memo", a description
O_memo == <<58, 109, 101, 109, 111>>
Lowered(s) == [i \in 1..Len(s) |-> lower(s[i])]
\* Each name in capitals, in small letters and with a capital first letter,
\* each of these alone, with a description and with one or two more
\* letters behind it; and the keywords that are no name.
TextKeywords ==
    UNION {{ContentNames[i], Lowered(ContentNames[i]),
            <<ContentNames[i][1]>> \o Tail(Lowered(ContentNames[i]))}
           : i \in 1..Len(ContentNames)}
TextOptions ==
    UNION {{k, k \o O_memo, k \o <<88>>, k \o <<101, 115>>} : k \in TextKeywords}
    \cup OtherKeywords \cup {k \o O_memo : k \in OtherKeywords}
\* "/text <option>\r\n"
TextLine(option) == <<47, 116, 101, 120, 116, 32>> \o option \o <<13, 10>>

TextInit == FramerInit /\ ChecksumIdle /\ CompareIdle /\ PureIdle

TextNext == \E option \in TextOptions : DeliverInBody(TextLine(option), MaxOpeningLines)

SpecText == TextInit /\ [][TextNext]_vars

\* The keyword of an option: the text before the ':' of a description.
KeywordOf(option) ==
    IF find(option, 58) < 0 THEN option ELSE Take(option, find(option, 58))
IsContentName(keyword) ==
    \E i \in 1..Len(ContentNames) : Lowered(ContentNames[i]) = Lowered(keyword)
\* ASCII and PRINTABLE are handled as ascii, ENV as env, the rest as binary.
HandlingOf(keyword) ==
    IF Lowered(keyword) \in {Lowered(ContentNames[1]), Lowered(ContentNames[2])}
    THEN "ascii"
    ELSE IF Lowered(keyword) = Lowered(ContentNames[3]) THEN "env"
    ELSE "binary"

\* C29: TextPdu option parsing accepts a non-empty option exactly when its
\* keyword, the text before an optional ':description', is one of the 14
\* content-type names in any case; ASCII and PRINTABLE are then handled as
\* ascii, ENV as env and the other eleven as binary; every other keyword,
\* a name followed by more letters included, is rejected with 303.
C29_TextKeyword ==
    [][\A option \in TextOptions :
           (state = "idle" /\ Delivering(TextLine(option)))
           => IF IsContentName(KeywordOf(option))
              THEN /\ call'.raised = NoError
                   /\ state' = "parsing"
                   /\ current_pdu'.type = "text"
                   /\ current_pdu'.content_type_handling = HandlingOf(KeywordOf(option))
              ELSE call'.raised = PduMalformedDataError]_vars

\* ------------------------------------------ the checksum of a CREATE line

\* "create", "CREATE" and "CrEaTe" with the sum of "/<word>*", each byte
\* taken with its low 7 bits: 717 = 0x02CD, 525 = 0x020D, 621 = 0x026D.
CreateWords ==
    << [word |-> <<99, 114, 101, 97, 116, 101>>, sum |-> 717],
       [word |-> <<67, 82, 69, 65, 84, 69>>, sum |-> 525],
       [word |-> <<67, 114, 69, 97, 84, 101>>, sum |-> 621] >>
\* Sender checksums: four hexadecimal digits, 1234, 02CD, 020D and 026D
\* among them, and the wildcard in both cases.
SenderSums ==
    {<<a, b, c, d>> : a \in {48, 49}, b \in {48, 50}, c \in {48, 51, 54, 67}, d \in {52, 68}}
Wildcards == {<<90, 90, 90, 90>>, <<122, 122, 122, 122>>}
\* "/<word>*<sum>\r"
CreateLine(i, text) == <<47>> \o CreateWords[i].word \o <<42>> \o text \o <<13>>

SumInit == FramerInit /\ ChecksumIdle /\ CompareIdle /\ PureIdle

SumNext ==
    \E i \in 1..Len(CreateWords) : \E text \in SenderSums \cup Wildcards :
        DeliverInBody(CreateLine(i, text), MaxOpeningLines)

SpecSum == SumInit /\ [][SumNext]_vars

\* The number four capital hexadecimal digits stand for.
HexValue(text) ==
    LET digit(c) == IF c <= 57 THEN c - 48 ELSE c - 55 IN
    ((digit(text[1]) * 16 + digit(text[2])) * 16 + digit(text[3])) * 16 + digit(text[4])

\* C30 as stated: '/create*1234\r' on an idle framer raises 403 and the
\* running checksum compared with 0x1234 is 0x026D.
C30_Compared026D ==
    arrived = <<L_create_bad>> =>
        /\ call.raised = PduChecksumError
        /\ call.compared = 621

\* C30: '/create*1234\r' on an idle framer raises 403 and the running
\* checksum compared with 0x1234 is 0x02CD, the sum of "/create*"; 0x026D
\* is the sum of "/CrEaTe*" and 0x020D that of "/CREATE*".  A line is
\* accepted exactly with its own sum or the wildcard.
C30_ComparedSum ==
    \A i \in 1..Len(CreateWords) : \A text \in SenderSums \cup Wildcards :
        arrived = <<CreateLine(i, text)>> =>
            /\ call.compared = CreateWords[i].sum
            /\ IF text \in Wildcards \/ HexValue(text) = CreateWords[i].sum
               THEN call.raised = NoError /\ state = "complete"
               ELSE call.raised = PduChecksumError /\ state = "idle"

\* C30: '/create*1234\r' was refused with 403 after 0x02CD was compared.
C30_Witness ==
    /\ arrived = <<L_create_bad>>
    /\ L_create_bad = CreateLine(1, <<49, 50, 51, 52>>)
    /\ call.raised = PduChecksumError
    /\ call.compared = 717

\* ------------------------------------- a stored error and the END line

\* END lines that parse_end_line refuses, with the body they are refused in
\* and the error: no CR, the other body's type word, no type word, a
\* checksum that is no hexadecimal number, a checksum that does not match.
\* "/end verify*ZZZZ"
E_verify_nocr == <<47, 101, 110, 100, 32, 118, 101, 114, 105, 102, 121, 42, 90, 90, 90, 90>>
\* "/end env*zzzz"
E_env_nocr == <<47, 101, 110, 100, 32, 101, 110, 118, 42, 122, 122, 122, 122>>
\* "/end*ZZZZ\r"
E_notype == <<47, 101, 110, 100, 42, 90, 90, 90, 90, 13>>
\* "/end verify*QWER\r"
E_verify_nonhex == <<47, 101, 110, 100, 32, 118, 101, 114, 105, 102, 121, 42, 81, 87, 69, 82, 13>>
\* "/end env*QWER\r"
E_env_nonhex == <<47, 101, 110, 100, 32, 101, 110, 118, 42, 81, 87, 69, 82, 13>>
\* "/end env*1234\r"
E_env_bad == <<47, 101, 110, 100, 32, 101, 110, 118, 42, 49, 50, 51, 52, 13>>
RefusedEnds ==
    { <<"verify", E_verify_nocr, PduSyntaxError>>,
      <<"verify", L_end_env, PduSyntaxError>>,
      <<"verify", E_notype, PduSyntaxError>>,
      <<"verify", E_verify_nonhex, PduSyntaxError>>,
      <<"verify", L_end_verify_bad, PduChecksumError>>,
      <<"env", E_env_nocr, PduSyntaxError>>,
      <<"env", L_end_verify, PduSyntaxError>>,
      <<"env", E_notype, PduSyntaxError>>,
      <<"env", E_env_nonhex, PduSyntaxError>>,
      <<"env", E_env_bad, PduChecksumError>> }
\* The lines delivered: the END lines, a To: line, and two lines the body
\* refuses, one without a colon and a continuation with no address.
StickyLines ==
    {r[2] : r \in RefusedEnds} \cup {L_to, H_bogus, H_ems}
MaxStickyLines == 3

StickyInit == \E opening \in {L_verify, L_env} : InsideBody(<<opening>>)

StickyNext == \E line \in StickyLines : DeliverInBody(line, MaxStickyLines)

SpecSticky == StickyInit /\ [][StickyNext]_vars

\* C31: with a body error stored, an END line that is itself refused raises
\* its own error, the body error stays stored and the PDU stays open; a
\* valid END line raises the stored body error, never 311 or 312, and
\* completes the PDU.
C31_EndErrorFirst ==
    [][/\ \A r \in RefusedEnds :
              (/\ state = "parsing" /\ current_type = r[1]
               /\ current_error # NoError
               /\ Delivering(r[2]))
              => /\ call'.raised = r[3]
                 /\ current_error' = current_error
                 /\ state' = "parsing"
       /\ (/\ state = "parsing" /\ current_type \in {"verify", "env"}
           /\ current_error # NoError
           /\ Delivering(ValidEnd(current_type)))
          => /\ call'.raised = current_error
             /\ call'.raised \notin {PduNoEnvelopeDataError, PduToRequiredError}
             /\ state' = "complete"]_vars

\* C31: in an ENV body a line without a colon stored 303, "/end env*1234\r"
\* then raised 403 and the valid END line 303, where finalize would have
\* found no envelope data.
C31_Witness ==
    /\ arrived = <<H_bogus, E_env_bad, L_end_env>>
    /\ current_pdu.envelope_data = FALSE
    /\ call.raised = PduMalformedDataError
    /\ state = "complete"

\* ------------------------------------------- the addresses of an envelope

\* "To: Bilbo (BOARD)\r\n"
A_to_board == <<84, 111, 58, 32, 66, 105, 108, 98, 111, 32, 40, 66, 79, 65, 82, 68, 41, 13, 10>>
\* "Cc: Sam (LIST)\r\n"
A_cc_list == <<67, 99, 58, 32, 83, 97, 109, 32, 40, 76, 73, 83, 84, 41, 13, 10>>
ToLines == {L_to, A_to_board}
CcLines == {L_cc, A_cc_list}
ListLines ==
    ToLines \cup CcLines \cup {L_from, H_ems, Q_subject, L_end_verify, L_end_env}
MaxListLines == 4

ListInit == \E opening \in {L_verify, L_env} : InsideBody(<<opening>>)

ListNext == \E line \in ListLines : DeliverInBody(line, MaxListLines)

SpecLists == ListInit /\ [][ListNext]_vars

\* What an address line gives on its own: the name and the option flags.
GivenAddress(line) ==
    IF line = L_to THEN [NewAddress EXCEPT !.name = <<71, 97, 110, 100, 97, 108, 102>>]
    ELSE IF line = A_to_board
    THEN [NewAddress EXCEPT !.name = <<66, 105, 108, 98, 111>>,
                            !.has_options = TRUE, !.board = TRUE]
    ELSE IF line = A_cc_list
    THEN [NewAddress EXCEPT !.name = <<83, 97, 109>>,
                            !.has_options = TRUE, !.list = TRUE]
    ELSE [NewAddress EXCEPT !.name = <<70, 114, 111, 100, 111>>]

\* The envelope lines delivered so far, refused END lines left out.
BodyLines == SelectSeq(arrived, IsBodyLine)
\* The address that line i of the body and its continuation line give.
OwnAddress(body, i) ==
    IF i < Len(body) /\ body[i + 1] = H_ems
    THEN [GivenAddress(body[i]) EXCEPT !.ems = <<73, 78, 84, 69, 82, 78, 69, 84>>]
    ELSE GivenAddress(body[i])
\* Line i has left the pending address: a later line that is no
\* continuation arrived, or the PDU was finalized.
Flushed(body, i) ==
    state = "complete" \/ \E j \in (i + 1)..Len(body) : body[j] # H_ems
\* The addresses of the lines of one kind that have left the pending
\* address, in the order of the lines.
OwnAddresses(body, kind) ==
    LET Listed(i) == body[i] \in kind /\ Flushed(body, i)
        at == SelectSeq([i \in 1..Len(body) |-> i], Listed)
    IN  [k \in 1..Len(at) |-> OwnAddress(body, at[k])]
Names(addresses) == [k \in 1..Len(addresses) |-> addresses[k].name]
\* Every line so far was accepted, and a completed PDU was finalized
\* without an error.
ParsedWithoutError ==
    /\ current_type \in {"verify", "env"}
    /\ current_error = NoError
    /\ \/ state = "parsing"
       \/ state = "complete" /\ call.cls = "end" /\ call.raised = NoError

\* C32: every address in the to-list, the cc-list and the from slot of an
\* envelope carries the name, the EMS value and the option flags of its own
\* address line and continuation line and nothing of an earlier address.
C32_FreshAddress ==
    ParsedWithoutError =>
        /\ current_pdu.to_address = OwnAddresses(BodyLines, ToLines)
        /\ current_pdu.cc_address = OwnAddresses(BodyLines, CcLines)
        /\ current_pdu.from_address = OwnAddresses(BodyLines, {L_from})

\* C40: while a VERIFY or ENV PDU is parsed without error, the to-list and
\* the cc-list name one entry per To: line and per Cc: line that has left
\* the pending address, in the order of the lines: an address enters its
\* list when the next line that is no continuation arrives, or at finalize,
\* and is neither lost nor entered twice.
C40_OneEntryPerLine ==
    ParsedWithoutError =>
        /\ Names(current_pdu.to_address) = Names(OwnAddresses(BodyLines, ToLines))
        /\ Names(current_pdu.cc_address) = Names(OwnAddresses(BodyLines, CcLines))
        /\ state = "complete" =>
               /\ current_pdu.address_parse_state = "idle"
               /\ Len(current_pdu.to_address)
                      = Len(SelectSeq(BodyLines, LAMBDA l : l \in ToLines))
               /\ Len(current_pdu.cc_address)
                      = Len(SelectSeq(BodyLines, LAMBDA l : l \in CcLines))

\* C40: To: Gandalf, Cc: Frodo, To: Bilbo and the END line of a VERIFY
\* body; the to-list names Gandalf and Bilbo and the cc-list Frodo.
C40_Witness ==
    /\ arrived = <<L_to, L_cc, A_to_board, L_end_verify>>
    /\ state = "complete" /\ call.raised = NoError
    /\ Names(current_pdu.to_address)
           = << <<71, 97, 110, 100, 97, 108, 102>>, <<66, 105, 108, 98, 111>> >>
    /\ Names(current_pdu.cc_address) = << <<70, 114, 111, 100, 111>> >>

\* ------------------------------------------ continuation lines of an address

\* "\tMBX: a@b\r\n"
K_mbx == <<9, 77, 66, 88, 58, 32, 97, 64, 98, 13, 10>>
\* "Date: Sun Aug 11, 2024 12:00 AM GMT\r\n"
K_date == <<68, 97, 116, 101, 58, 32, 83, 117, 110, 32, 65, 117, 103, 32, 49, 49, 44, 32, 50, 48, 50, 52, 32, 49, 50, 58, 48, 48, 32, 65, 77, 32, 71, 77, 84, 13, 10>>
Continuations == {H_ems, K_mbx}
AddressStarts == {L_to, L_cc, L_from}
ContLines == AddressStarts \cup Continuations \cup {Q_subject, K_date, L_end_env}
MaxContLines == 5

ContInit == \E opening \in {L_verify, L_env} : InsideBody(<<opening>>)

ContNext == \E line \in ContLines : DeliverInBody(line, MaxContLines)

SpecCont == ContInit /\ [][ContNext]_vars

\* The field lines accepted so far that are no continuation.
FieldLines ==
    SelectSeq(arrived, LAMBDA l : IsBodyLine(l) /\ l \notin Continuations)
\* The most recent field line began an address.
AddressPending ==
    FieldLines # <<>> /\ FieldLines[Len(FieldLines)] \in AddressStarts

KnownWords ==
    {<<<<98, 117, 115, 121>>, "busy">>,
     <<<<66, 85, 83, 89>>, "busy">>,
     <<<<66, 117, 83, 121>>, "busy">>,
     <<<<99, 111, 109, 109, 101, 110, 116>>, "comment">>,
     <<<<67, 79, 77, 77, 69, 78, 84>>, "comment">>,
     <<<<67, 111, 77, 109, 69, 110, 84>>, "comment">>,
     <<<<99, 114, 101, 97, 116, 101>>, "create">>,
     <<<<67, 82, 69, 65, 84, 69>>, "create">>,
     <<<<67, 114, 69, 97, 84, 101>>, "create">>,
     <<<<101, 110, 100>>, "end">>,
     <<<<69, 78, 68>>, "end">>,
     <<<<69, 110, 68>>, "end">>,
     <<<<101, 110, 118>>, "env">>,
     <<<<69, 78, 86>>, "env">>,
     <<<<69, 110, 86>>, "env">>,
     <<<<104, 100, 114>>, "hdr">>,
     <<<<72, 68, 82>>, "hdr">>,
     <<<<72, 100, 82>>, "hdr">>,
     <<<<105, 110, 105, 116>>, "init">>,
     <<<<73, 78, 73, 84>>, "init">>,
     <<<<73, 110, 73, 116>>, "init">>,
     <<<<114, 101, 112, 108, 121>>, "reply">>,
     <<<<82, 69, 80, 76, 89>>, "reply">>,
     <<<<82, 101, 80, 108, 89>>, "reply">>,
     <<<<114, 101, 115, 101, 116>>, "reset">>,
     <<<<82, 69, 83, 69, 84>>, "reset">>,
     <<<<82, 101, 83, 101, 84>>, "reset">>,
     <<<<115, 99, 97, 110>>, "scan">>,
     <<<<83, 67, 65, 78>>, "scan">>,
     <<<<83, 99, 65, 110>>, "scan">>,
     <<<<115, 101, 110, 100>>, "send">>,
     <<<<83, 69, 78, 68>>, "send">>,
     <<<<83, 101, 78, 100>>, "send">>,
     <<<<116, 101, 114, 109>>, "term">>,
     <<<<84, 69, 82, 77>>, "term">>,
     <<<<84, 101, 82, 109>>, "term">>,
     <<<<116, 101, 120, 116>>, "text">>,
     <<<<84, 69, 88, 84>>, "text">>,
     <<<<84, 101, 88, 116>>, "text">>,
     <<<<116, 117, 114, 110>>, "turn">>,
     <<<<84, 85, 82, 78>>, "turn">>,
     <<<<84, 117, 82, 110>>, "turn">>,
     <<<<118, 101, 114, 105, 102, 121>>, "verify">>,
     <<<<86, 69, 82, 73, 70, 89>>, "verify">>,
     <<<<86, 101, 82, 105, 70, 121>>, "verify">>}
\* Runs of letters that are no keyword: the empty run, proper prefixes,
\* unknown words and keywords followed directly by more letters:
\* "", "e", "en", "ver", "comm", "Tex", "foo", "x", "envx", "ENDd", "texts", "createe", "sendbusy", "zzz"
OtherWords ==
    {<<>>,
     <<101>>,
     <<101, 110>>,
     <<118, 101, 114>>,
     <<99, 111, 109, 109>>,
     <<84, 101, 120>>,
     <<102, 111, 111>>,
     <<120>>,
     <<101, 110, 118, 120>>,
     <<69, 78, 68, 100>>,
     <<116, 101, 120, 116, 115>>,
     <<99, 114, 101, 97, 116, 101, 101>>,
     <<115, 101, 110, 100, 98, 117, 115, 121>>,
     <<122, 122, 122>>}
\* What follows the run: nothing, or bytes that begin with a byte that is no
\* ASCII letter, among them the neighbours of 'A', 'Z', 'a' and 'z'.
WordTails ==
    {<<>>,
     <<32>>,
     <<42, 90, 90, 90, 90>>,
     <<49>>,
     <<13, 10>>,
     <<45>>,
     <<64>>,
     <<91>>,
     <<96>>,
     <<123>>,
     <<225>>,
     <<32, 101, 110, 118>>}

\* A string_view of a run of letters and what follows it, not yet looked up.
CursorAt(word, tail, type) ==
    cursor = [phase |-> "given", str |-> word \o tail, found |-> FALSE, cmd |-> "none",
              rest |-> word \o tail, word |-> word, tail |-> tail, type |-> type]

TrieInit ==
    /\ FramerInit /\ ChecksumIdle /\ CompareIdle /\ CodecIdle /\ MciIdle
    /\ RawIdle /\ ZonedIdle /\ ArrivedIdle
    /\ \E tail \in WordTails :
           \/ \E known \in KnownWords : CursorAt(known[1], tail, known[2])
           \/ \E word \in OtherWords : CursorAt(word, tail, "none")

\* pdu_trie.find(str): the optional that comes back and the view after it.
TrieLookup ==
    LET Returned(r) ==
            cursor' = [cursor EXCEPT !.phase = "looked", !.found = r.found,
                                     !.cmd = r.cmd, !.rest = r.rest]
    IN  /\ cursor.phase = "given"
        /\ Returned(TrieFind(cursor.str))
        /\ UNCHANGED <<framer_vars, checksum_vars, compare_vars, pure_vars, raw, zoned,
                       arrived>>

TrieNext == TrieLookup

SpecTrie == TrieInit /\ [][TrieNext]_vars

\* C35: a lookup at a run of ASCII letters followed by the end of the
\* string or by a byte that is no ASCII letter succeeds exactly when the
\* run is one of the fifteen keywords in any case; it then returns the
\* keyword's type and leaves the view at the first byte after the run, and
\* otherwise it returns nothing and leaves the view where it was.
C35_WholeRun ==
    cursor.phase = "looked" =>
        IF cursor.type # "none"
        THEN cursor.found /\ cursor.cmd = cursor.type /\ cursor.rest = cursor.tail
        ELSE ~cursor.found /\ cursor.cmd = "none" /\ cursor.rest = cursor.str

\* C35: "VeRiFy*ZZZZ" is looked up as verify and the view is left at
\* "*ZZZZ"; the witness of the refusal is C35_WitnessRefused.
C35_Witness ==
    /\ cursor.phase = "looked"
    /\ cursor.str = <<86, 101, 82, 105, 70, 121, 42, 90, 90, 90, 90>>
    /\ cursor.found /\ cursor.cmd = "verify"
    /\ cursor.rest = <<42, 90, 90, 90, 90>>

\* "envx env" is no keyword and the view is left at its first byte.
C35_WitnessRefused ==
    /\ cursor.phase = "looked"
    /\ cursor.str = <<101, 110, 118, 120, 32, 101, 110, 118>>
    /\ ~cursor.found
    /\ cursor.rest = cursor.str

\* ------------------------------------------------ the lines of a COMMENT

\* "hello\r\n"
M_crlf == <<104, 101, 108, 108, 111, 13, 10>>
\* "hello\r"
M_cr == <<104, 101, 108, 108, 111, 13>>
\* "100%25 sure\r\n"
M_percent == <<49, 48, 48, 37, 50, 53, 32, 115, 117, 114, 101, 13, 10>>
\* "bad %zz\r\n"
M_badhex == <<98, 97, 100, 32, 37, 122, 122, 13, 10>>
\* Lines whose text decodes: terminated by CR LF, and by a bare CR.
DecodableComments == {M_crlf, M_cr, M_percent}
\* Lines with an invalid percent code or an unescaped '/'.
UndecodableComments == {M_badhex, L_slash_in_text}
CommentLines == DecodableComments \cup UndecodableComments \cup {L_end_comment}
MaxCommentLines == 4

CommentInit == InsideBody(<<L_comment>>)

CommentNext == \E line \in CommentLines : DeliverInBody(line, MaxCommentLines)

SpecComment == CommentInit /\ [][CommentNext]_vars

\* C36: in a COMMENT body a line whose text decodes, whether it ends in
\* CR LF or in a bare CR, leaves no error, and the only error a body line
\* leaves is 303.
C36_CommentLines ==
    [][\A line \in CommentLines :
           (Delivering(line) /\ IsBodyLine(line) /\ state = "parsing"
                /\ current_error = NoError) =>
               /\ current_error' \in {NoError, PduMalformedDataError}
               /\ line \in DecodableComments => current_error' = NoError
       ]_vars

\* C38: after a parse_first_line that returned on a default-constructed
\* address, the name or the id is not empty.
C38_NameOrId ==
    (raw.phase = "named" /\ raw.calls = 1 /\ raw.before = NewAddress /\ raw.err = NoError) =>
        raw.addr.name # <<>> \/ raw.addr.id # <<>>

\* ------------------------------------------------ one framer, several PDUs

\* The calls on one framer in order: a delivered line as itself,
\* extract_pdu() and reset() by name.
\* "extract_pdu()"
X_extract == <<101, 120, 116, 114, 97, 99, 116, 95, 112, 100, 117, 40, 41>>
\* "reset()"
X_reset == <<114, 101, 115, 101, 116, 40, 41>>
RestartLines == {L_create_sum, L_env, L_verify, L_verify_bogus, L_to}
MaxRestartCalls == 6

RestartInit == Init

DeliverAgain(line) ==
    /\ Len(arrived) < MaxRestartCalls
    /\ ParseLineStep(line, MaxRestartCalls)
    /\ arrived' = Append(arrived, line)
    /\ UNCHANGED <<checksum_vars, compare_vars, pure_vars, raw, zoned, cursor>>

ExtractAgain ==
    /\ Len(arrived) < MaxRestartCalls
    /\ ExtractStep
    /\ arrived' = Append(arrived, X_extract)
    /\ UNCHANGED <<checksum_vars, compare_vars, pure_vars, raw, zoned, cursor>>

ResetAgain ==
    /\ Len(arrived) < MaxRestartCalls
    /\ ResetStep
    /\ arrived' = Append(arrived, X_reset)
    /\ UNCHANGED <<checksum_vars, compare_vars, pure_vars, raw, zoned, cursor>>

RestartNext ==
    \/ \E line \in RestartLines : DeliverAgain(line)
    \/ ExtractAgain
    \/ ResetAgain

SpecRestart == RestartInit /\ [][RestartNext]_vars

\* C39: whatever was fed to the framer before, an opening line accepted in
\* the idle state leaves the sum of its own bytes as the PDU's checksum:
\* 0x018F after "/env\r\n", 0x02DB after "/verify\r\n", and "/create*" is
\* compared as 0x02CD and accepted.
C39_ZeroStart ==
    [][(state = "idle" /\ Len(arrived') = Len(arrived) + 1) =>
           LET line == arrived'[Len(arrived')] IN
           /\ line = L_env => state' = "parsing" /\ current_pdu'.checksum = 399
           /\ line = L_verify => state' = "parsing" /\ current_pdu'.checksum = 731
           /\ line = L_create_sum =>
                  /\ state' = "complete"
                  /\ call'.raised = NoError
                  /\ call'.compared = 717
       ]_vars

\* C39: a CREATE was extracted, an ENV body with a To: line was abandoned
\* by reset(), and the VERIFY that follows starts from its own opening
\* line.
C39_Witness ==
    /\ arrived = <<L_create_sum, X_extract, L_env, L_to, X_reset, L_verify>>
    /\ state = "parsing"
    /\ current_pdu.checksum = 731

\* "/verify BOGUS\r" was rejected at the opening line with its bytes in
\* the checksum of the body it left behind, and "/create*02CD\r" is
\* accepted after it.
C39_WitnessRejected ==
    /\ arrived = <<L_env, L_to, X_reset, L_verify_bogus, L_create_sum>>
    /\ state = "complete"
    /\ call.compared = 717

\* ------------------------------------------ the control bytes of the decoder

\* The bytes filter inputs are drawn from: 'a', tab, CR, LF, DEL, 0x15,
\* 0x0B, LF with the top bit set, '%', '0' and 'D'.
FilterAlphabet == {97, 9, 13, 10, 127, 21, 11, 138, 37, 48, 68}
MaxFilterLen == 4
FilterTexts == UNION {[1..n -> FilterAlphabet] : n \in 0..MaxFilterLen}

FilterInit ==
    /\ FramerInit /\ ChecksumIdle /\ CompareIdle /\ MciIdle /\ UnitIdle
    /\ \E text \in FilterTexts :
           codec = [phase |-> "ready", text |-> text, enc |-> <<>>, pos |-> 0, run |-> 0,
                    out |-> <<>>, err |-> NoError, out7 |-> <<>>, err7 |-> NoError]

SpecFilter == FilterInit /\ [][DecodeNext]_vars

\* The fold of the control-byte filter over masked bytes s, from the
\* output so far.
RECURSIVE FilterFold(_, _)
FilterFold(s, out) ==
    IF s = <<>> THEN out
    ELSE IF s[1] = 9
    THEN FilterFold(Tail(s), out \o [k \in 1..(4 - (Len(out) % 4)) |-> 32])
    ELSE IF s[1] = 13 /\ Len(s) > 1 /\ s[2] = 10
    THEN FilterFold(Tail(Tail(s)), out \o <<13, 10>>)
    ELSE IF s[1] \in {13, 10, 11, 12, 15, 17, 18, 19}
    THEN FilterFold(Tail(s), out)
    ELSE IF s[1] \in {21, 24}
    THEN FilterFold(Tail(s), <<>>)
    ELSE IF s[1] = 127
    THEN FilterFold(Tail(s), IF out = <<>> THEN out ELSE SubSeq(out, 1, Len(out) - 1))
    ELSE FilterFold(Tail(s), Append(out, s[1]))

NoEscapeNoSlash(s) == \A i \in 1..Len(s) : (s[i] % 128) \notin {37, 47}

\* C33: for an input that holds no '%' and no '/' once masked,
\* decode_string returns the fold of the control-byte filter over the
\* masked bytes: tab fills with spaces to the next multiple of 4, CR
\* followed by LF gives CR LF, a lone CR or LF and 0x0B, 0x0C, 0x0F, 0x11,
\* 0x12, 0x13 give nothing, 0x15 and 0x18 clear the output, DEL removes the
\* last byte, every other byte is appended.
C33_ControlFold ==
    (codec.phase = "done" /\ NoEscapeNoSlash(codec.text)) =>
        /\ codec.err = NoError
        /\ codec.out = FilterFold(Mask7(codec.text), <<>>)

\* C37: in a string decode_string returns, every CR is followed by LF and
\* every LF is preceded by CR.
C37_PairsOnly ==
    (codec.phase = "done" /\ codec.err = NoError) =>
        \A i \in 1..Len(codec.out) :
            /\ codec.out[i] = 13 => i < Len(codec.out) /\ codec.out[i + 1] = 10
            /\ codec.out[i] = 10 => i > 1 /\ codec.out[i - 1] = 13
=============================================================================
